---------------------------- MODULE Spec2Model ----------------------------
(***************************************************************************)
(* Connect-Four engine (mtkonge/connect-4-ai): the packed board of         *)
(* src/src/board.rs and the weight codec of src/src/bot.rs.                *)
(*                                                                         *)
(* Machine integers are bit vectors: a value of width w is a function      *)
(* from bit index (0 = least significant) to 0 or 1.  A u128 has domain    *)
(* 0..127, a u64 0..63, a u32 0..31; shifts, masks and casts keep or drop  *)
(* exactly the bits the Rust operators keep or drop.  usize is 64 bits.    *)
(***************************************************************************)
EXTENDS Integers, Sequences, FiniteSets, TLC

VARIABLES
    column_pair,    \* Board.column_pair of the live board: <<u64, u32>>
    script,         \* placements the driver has still to make, in order
    free,           \* number of freely chosen place_chip calls made so far
    last,           \* the last place_chip call: arguments, result, board before,
                    \* and the number of failed calls in a row it ends
    placed,         \* per column, the number of place_chip calls that returned Ok
    build,          \* size_of::<Board>() of the build (layout of (u64, u32))
    codec_in,       \* codec input: the (board, weights) pair given to serialize_weights
    codec_bytes,    \* the byte array serialize_weights returned
    codec_out,      \* the (board, weights) pair deserialize_weights returned
    pc,             \* position of the codec driver
    found,          \* the last search: its arguments, the board it was run on,
                    \* the Minmaxxing of each child and the value returned
    bots,           \* the agent that plays each colour, a Bot
    game,           \* Game.turn, the position of the trainer, the matches
                    \* started and the lessons given from outside
    calls,          \* the calls of Bot methods made by the last step
    arena           \* GladiatorBotTrainer: the fights, the remainder and the
                    \* agents and tallies of the pair under evaluation

vars == <<column_pair, script, free, last, placed, build, codec_in, codec_bytes, codec_out, pc,
          found, bots, game, calls, arena>>

boardVars == <<column_pair, script, free, last, placed>>
codecVars == <<build, codec_in, codec_bytes, codec_out, pc>>
searchVars == <<found>>
botVars == <<bots, game, calls, arena>>

-----------------------------------------------------------------------------
(* Chip and Option<Chip> *)

Red == "Red"
Yellow == "Yellow"
None == "None"
Panic == "Panic"

Chip == {Red, Yellow}

opposite(chip) == IF chip = Red THEN Yellow ELSE Red

-----------------------------------------------------------------------------
(* Bit vectors *)

U128 == 0..127

\* x as u128, for x of width w (zero extension)
ToU128(x, w) == [i \in U128 |-> IF i < w THEN x[i] ELSE 0]

\* x as usize: the low 64 bits
AsUsize(x) == [i \in U128 |-> IF i < 64 THEN x[i] ELSE 0]

\* an integer literal 0 <= n < 2^31 as a u128
Lit(n) == [i \in U128 |-> IF i < 31 THEN (n \div (2 ^ i)) % 2 ELSE 0]

Shl(x, k) == [i \in U128 |-> IF i >= k THEN x[i - k] ELSE 0]

Shr(x, k) == [i \in U128 |-> IF i + k <= 127 THEN x[i + k] ELSE 0]

BitAnd(x, y) == [i \in U128 |-> IF x[i] = 1 /\ y[i] = 1 THEN 1 ELSE 0]

BitOr(x, y) == [i \in U128 |-> IF x[i] = 1 \/ y[i] = 1 THEN 1 ELSE 0]

\* count_ones of a value whose bits are indexed by dom
count_ones(x, dom) == Cardinality({i \in dom : x[i] = 1})

IsZero(x) == \A i \in U128 : x[i] = 0

\* mask(count): the loop ors a 1 into bit 0 and shifts it up, count times,
\* which leaves exactly the bits 0..count-1 set (test_mask)
mask(count) == [i \in U128 |-> IF i < count THEN 1 ELSE 0]

\* padded_mask(count, padding): the same loop, the result shifted by padding
padded_mask(count, padding) == Shl(mask(count), padding)

-----------------------------------------------------------------------------
(* Board *)

COLUMN_LEN == 7
ROW_LEN == 6
CHIP_BITS_LEN == 2
ROW_BITS_LEN == ROW_LEN * CHIP_BITS_LEN

Ok(row) == [tag |-> "Ok", row |-> row, err |-> None]
Err(e) == [tag |-> "Err", row |-> -1, err |-> e]

from_pair(columns) == columns

new == from_pair(<<[i \in 0..63 |-> 0], [i \in 0..31 |-> 0]>>)

as_pair(b) == b

as_u128(b) == BitOr(Shl(ToU128(b[1], 64), 32), ToU128(b[2], 32))

pair_from_u128(value) ==
    LET v64 == BitAnd(Shr(value, 32), mask(64))
        v32 == BitAnd(value, mask(32))
    IN  <<[i \in 0..63 |-> v64[i]], [i \in 0..31 |-> v32[i]]>>

chip_at(b, column, row) ==
    LET columns == as_u128(b)
        chips == AsUsize(Shr(columns, ROW_BITS_LEN * column))
        chip == BitAnd(Shr(chips, CHIP_BITS_LEN * row), AsUsize(mask(CHIP_BITS_LEN)))
        v == chip[0] + 2 * chip[1]
    IN  CASE v = 0 -> None
          [] v = 1 -> Red
          [] v = 2 -> Yellow
          [] OTHER -> Panic

\* set_chip_at with the row offset counted in bits instead of cells
set_chip_at_row_bits(b, column, row, chip) ==
    LET offset == (ROW_BITS_LEN * column) + row
        c == IF chip = Red THEN Lit(1) ELSE Lit(2)
    IN  pair_from_u128(BitOr(as_u128(b), Shl(c, offset)))

\* set_chip_at writing both bits of the cell for Yellow
set_chip_at_both_bits(b, column, row, chip) ==
    LET offset == (ROW_BITS_LEN * column) + (CHIP_BITS_LEN * row)
        c == IF chip = Red THEN Lit(1) ELSE Lit(3)
    IN  pair_from_u128(BitOr(as_u128(b), Shl(c, offset)))

set_chip_at(b, column, row, chip) ==
    LET offset == (ROW_BITS_LEN * column) + (CHIP_BITS_LEN * row)
        c == IF chip = Red THEN Lit(1) ELSE Lit(2)
    IN  pair_from_u128(BitOr(as_u128(b), Shl(c, offset)))

\* place_chip refusing a column only above ROW_LEN chips
place_chip_off_by_one(b, column, chip) ==
    IF column >= COLUMN_LEN
    THEN [board |-> b, result |-> Err("InvalidColumn")]
    ELSE LET columns == as_u128(b)
             chips == BitAnd(Shr(columns, ROW_BITS_LEN * column), mask(ROW_BITS_LEN))
             chips_placed == count_ones(chips, U128)
         IN  IF chips_placed > ROW_LEN
             THEN [board |-> b, result |-> Err("ColumnOccupied")]
             ELSE [board |-> set_chip_at(b, column, chips_placed, chip),
                   result |-> Ok(chips_placed)]

\* place_chip writing the chip before it looks whether the column is full
place_chip_writes_first(b, column, chip) ==
    IF column >= COLUMN_LEN
    THEN [board |-> b, result |-> Err("InvalidColumn")]
    ELSE LET columns == as_u128(b)
             chips == BitAnd(Shr(columns, ROW_BITS_LEN * column), mask(ROW_BITS_LEN))
             chips_placed == count_ones(chips, U128)
             written == set_chip_at(b, column, chips_placed, chip)
         IN  IF chips_placed >= ROW_LEN
             THEN [board |-> written, result |-> Err("ColumnOccupied")]
             ELSE [board |-> written, result |-> Ok(chips_placed)]

place_chip(b, column, chip) ==
    IF column >= COLUMN_LEN
    THEN [board |-> b, result |-> Err("InvalidColumn")]
    ELSE LET columns == as_u128(b)
             chips == BitAnd(Shr(columns, ROW_BITS_LEN * column), mask(ROW_BITS_LEN))
             chips_placed == count_ones(chips, U128)
         IN  IF chips_placed >= ROW_LEN
             THEN [board |-> b, result |-> Err("ColumnOccupied")]
             ELSE LET row == chips_placed
                  IN  [board |-> set_chip_at(b, column, row, chip),
                       result |-> Ok(row)]


\* swap without the mask that cuts one column out of the board
swap_unmasked(b) ==
    LET columns == as_u128(b)
        RECURSIVE loop(_, _)
        loop(column, swapped_columns) ==
            IF column = COLUMN_LEN THEN swapped_columns
            ELSE LET row == Shr(columns, ROW_BITS_LEN * column)
                     rev_position == COLUMN_LEN - 1 - column
                     rev == Shl(row, ROW_BITS_LEN * rev_position)
                 IN  loop(column + 1, BitOr(swapped_columns, rev))
    IN  from_pair(pair_from_u128(loop(0, Lit(0))))

\* swap with the mirrored position one column too far
swap_off_by_one(b) ==
    LET columns == as_u128(b)
        RECURSIVE loop(_, _)
        loop(column, swapped_columns) ==
            IF column = COLUMN_LEN THEN swapped_columns
            ELSE LET row == BitAnd(Shr(columns, ROW_BITS_LEN * column), mask(ROW_BITS_LEN))
                     rev_position == COLUMN_LEN - column
                     rev == Shl(row, ROW_BITS_LEN * rev_position)
                 IN  loop(column + 1, BitOr(swapped_columns, rev))
    IN  from_pair(pair_from_u128(loop(0, Lit(0))))

swap(b) ==
    LET columns == as_u128(b)
        RECURSIVE loop(_, _)
        loop(column, swapped_columns) ==
            IF column = COLUMN_LEN THEN swapped_columns
            ELSE LET row == BitAnd(Shr(columns, ROW_BITS_LEN * column), mask(ROW_BITS_LEN))
                     rev_position == COLUMN_LEN - 1 - column
                     rev == Shl(row, ROW_BITS_LEN * rev_position)
                 IN  loop(column + 1, BitOr(swapped_columns, rev))
    IN  from_pair(pair_from_u128(loop(0, Lit(0))))

\* filled counting the bits of the u64 field only
filled_u64_only(b) ==
    LET ones == count_ones(b[1], 0..63)
    IN  ones = COLUMN_LEN * ROW_LEN

filled(b) ==
    LET ones == count_ones(b[1], 0..63) + count_ones(b[2], 0..31)
    IN  ones = COLUMN_LEN * ROW_LEN

directions == <<<<1, -1>>, <<1, 0>>, <<0, 1>>, <<1, 1>>>>

\* winner looking only at the runs that start or end at (column, row)
winner_ends_only(b, column, row) ==
    IF column >= COLUMN_LEN \/ row >= ROW_LEN THEN None
    ELSE LET player == chip_at(b, column, row)
             is_winner ==
                \E d \in 1..4 :
                    \E min \in {0, 3} :
                        \A max \in (min - 3)..min :
                            LET c == column + directions[d][1] * max
                                r == row + directions[d][2] * max
                            IN  IF c \notin 0..(COLUMN_LEN - 1) \/ r \notin 0..(ROW_LEN - 1)
                                THEN FALSE
                                ELSE chip_at(b, c, r) = player
         IN  IF player \notin Chip THEN player
             ELSE IF is_winner THEN player ELSE None

winner(b, column, row) ==
    IF column >= COLUMN_LEN \/ row >= ROW_LEN THEN None
    ELSE LET player == chip_at(b, column, row)
             is_winner ==
                \E d \in 1..4 :
                    \E min \in 0..3 :
                        \A max \in (min - 3)..min :
                            LET c == column + directions[d][1] * max
                                r == row + directions[d][2] * max
                            IN  IF c \notin 0..(COLUMN_LEN - 1) \/ r \notin 0..(ROW_LEN - 1)
                                THEN FALSE
                                ELSE chip_at(b, c, r) = player
         IN  IF player \notin Chip THEN player
             ELSE IF is_winner THEN player ELSE None

available_column_choices(b) ==
    [column \in 0..(COLUMN_LEN - 1) |->
        LET columns == as_u128(b)
            chips == AsUsize(Shr(columns, ROW_BITS_LEN * column))
            last_chip_in_row_mask ==
                AsUsize(padded_mask(CHIP_BITS_LEN, ROW_BITS_LEN - CHIP_BITS_LEN))
        IN  IsZero(BitAnd(chips, last_chip_in_row_mask))]

\* win_possibilities_at_position passing the cells that are off the board
win_possibilities_off_board(b, column, row) ==
    IF column >= COLUMN_LEN \/ row >= ROW_LEN THEN <<None, 0>>
    ELSE LET player == chip_at(b, column, row)
             stripe_ok(d, idx0) ==
                \A idx \in (idx0 - 3)..idx0 :
                    LET c == column + directions[d][1] * idx
                        r == row + directions[d][2] * idx
                    IN  IF c \notin 0..(COLUMN_LEN - 1) \/ r \notin 0..(ROW_LEN - 1)
                        THEN TRUE
                        ELSE LET other == chip_at(b, c, r)
                             IN  other = player \/ other = None
             possible_wins ==
                Cardinality({p \in (1..4) \X (0..3) : stripe_ok(p[1], p[2])})
         IN  IF player \notin Chip THEN <<player, 0>>
             ELSE <<player, possible_wins>>

\* Option<(Chip, i16)>: <<chip, points>>, or <<None, 0>> for None
win_possibilities_at_position(b, column, row) ==
    IF column >= COLUMN_LEN \/ row >= ROW_LEN THEN <<None, 0>>
    ELSE LET player == chip_at(b, column, row)
             stripe_ok(d, idx0) ==
                \A idx \in (idx0 - 3)..idx0 :
                    LET c == column + directions[d][1] * idx
                        r == row + directions[d][2] * idx
                    IN  IF c \notin 0..(COLUMN_LEN - 1) \/ r \notin 0..(ROW_LEN - 1)
                        THEN FALSE
                        ELSE LET other == chip_at(b, c, r)
                             IN  other = player \/ other = None
             possible_wins ==
                Cardinality({p \in (1..4) \X (0..3) : stripe_ok(p[1], p[2])})
         IN  IF player \notin Chip THEN <<player, 0>>
             ELSE <<player, possible_wins>>

\* the loop adds to value, cell by cell (col outer, row inner), the points of
\* a cell of maximizer and subtracts those of another chip's cell; cell k of
\* that order is (k \div ROW_LEN, k % ROW_LEN)
value_of_board(b, maximizer) ==
    LET delta(k) ==
            LET w == win_possibilities_at_position(b, k \div ROW_LEN, k % ROW_LEN)
            IN  IF w[1] = None THEN 0
                ELSE IF w[1] = maximizer THEN w[2]
                ELSE 0 - w[2]
        RECURSIVE sum(_, _)
        sum(lo, hi) ==
            IF lo = hi THEN delta(lo)
            ELSE LET mid == (lo + hi) \div 2
                 IN  sum(lo, mid) + sum(mid + 1, hi)
    IN  sum(0, COLUMN_LEN * ROW_LEN - 1)

-----------------------------------------------------------------------------
(* The search of board.rs.  A Minmaxxing value is a record: Position(c, v) *)
(* and Result(v) as in the code, and Aborted for a call that does not      *)
(* return (an expect that fails, an i16 product out of range).             *)

I16_MIN == -32768
I16_MAX == 32767

Position(column, score) == [tag |-> "Position", column |-> column, score |-> score]
Result(score) == [tag |-> "Result", column |-> -1, score |-> score]
Aborted(why) == [tag |-> "Aborted", column |-> -1, score |-> 0, why |-> why]

DEPTH == 5

\* the board as the value it is, every bit worked out
Settled(b) == <<b[1] @@ <<>>, b[2] @@ <<>>>>

\* Iterator::max_by on the (column, score) pairs: of equal maxima the last
max_by(children) ==
    LET RECURSIVE fold(_, _)
        fold(acc, k) ==
            IF k > Len(children) THEN acc
            ELSE fold(IF acc[2] > children[k][2] THEN acc ELSE children[k], k + 1)
    IN  fold(children[1], 2)

\* Iterator::min_by on the (column, score) pairs: of equal minima the first
min_by(children) ==
    LET RECURSIVE fold(_, _)
        fold(acc, k) ==
            IF k > Len(children) THEN acc
            ELSE fold(IF acc[2] > children[k][2] THEN children[k] ELSE acc, k + 1)
    IN  fold(children[1], 2)

RECURSIVE minmax_children(_, _, _, _)
RECURSIVE minmax_after_move(_, _, _, _, _)
RECURSIVE minmax_children_results(_, _, _, _)
RECURSIVE scored_move(_, _, _, _, _, _)
RECURSIVE child_of(_, _, _, _, _)

\* the children iterator of minmax_children before the Minmaxxing values are
\* taken apart: for each available column in ascending order the pair
\* <<column, minmax_after_move(..)>>
\* the child of a column: place_chip on a copy of the board, which cannot
\* fail on an available column, and minmax_after_move on the copy
child_of(column, placed_chip, maximizer, turn, depth) ==
    <<column,
      IF placed_chip.result.tag = "Ok"
      THEN minmax_after_move(Settled(placed_chip.board), maximizer, opposite(turn),
                             [column |-> column, row |-> placed_chip.result.row], depth)
      ELSE Aborted("making move based on available choices")>>

minmax_children_results(b, maximizer, turn, depth) ==
    LET available == available_column_choices(b)
        RECURSIVE walk(_)
        walk(column) ==
            IF column = COLUMN_LEN THEN <<>>
            ELSE IF ~available[column] THEN walk(column + 1)
            ELSE <<child_of(column, place_chip(b, column, turn), maximizer, turn, depth)>>
                 \o walk(column + 1)
    IN  walk(0)

\* the rest of minmax_children: the (column, score) pairs of the children,
\* the one chosen for the mover, and the Position returned; the first child
\* that did not return ends the call
chosen_child(results, maximizer, turn) ==
    LET aborted == {k \in 1..Len(results) : results[k][2].tag = "Aborted"}
        children == [k \in 1..Len(results) |-> <<results[k][1], results[k][2].score>>]
    IN  IF aborted # {} THEN results[CHOOSE k \in aborted : \A j \in aborted : k <= j][2]
        ELSE IF Len(children) = 0 THEN Aborted("game is not over")
        ELSE LET chosen == IF turn = maximizer THEN max_by(children) ELSE min_by(children)
             IN  Position(chosen[1], chosen[2])

minmax_children(b, maximizer, turn, depth) ==
    chosen_child(minmax_children_results(b, maximizer, turn, depth), maximizer, turn)

\* minmax_after_move looking for a winner before it looks at filled
minmax_after_move_winner_first(b, maximizer, turn, pos, depth) ==
    IF winner(b, pos.column, pos.row) # None
    THEN IF maximizer = winner(b, pos.column, pos.row) THEN Result(1000)
         ELSE Result(-1000)
    ELSE IF filled(b) THEN Result(0)
    ELSE IF depth = 0
         THEN Result(value_of_board(b, maximizer) * 8)
         ELSE minmax_children(b, maximizer, turn, depth - 1)

\* minmax_after_move weighting the value of the board by 16
minmax_after_move_times_16(b, maximizer, turn, pos, depth) ==
    IF filled(b) THEN Result(0)
    ELSE IF winner(b, pos.column, pos.row) # None
    THEN IF maximizer = winner(b, pos.column, pos.row) THEN Result(1000)
         ELSE Result(-1000)
    ELSE IF depth = 0
         THEN Result(value_of_board(b, maximizer) * 16)
         ELSE minmax_children(b, maximizer, turn, depth - 1)

\* the end of minmax_after_move on a board that is not filled: won is
\* winner(pos) and value the value of the board for the maximizer
scored_move(b, maximizer, turn, depth, won, value) ==
    IF won # None
    THEN IF maximizer = won THEN Result(1000) ELSE Result(-1000)
    ELSE IF depth = 0
         THEN IF value * 8 \in I16_MIN..I16_MAX THEN Result(value * 8)
              ELSE Aborted("attempt to multiply with overflow")
         ELSE minmax_children(b, maximizer, turn, depth - 1)

minmax_after_move(b, maximizer, turn, pos, depth) ==
    IF filled(b) THEN Result(0)
    ELSE scored_move(b, maximizer, turn, depth, winner(b, pos.column, pos.row),
                     value_of_board(b, maximizer))

minmax(b, maximizer, turn) == minmax_children(b, maximizer, turn, DEPTH)

-----------------------------------------------------------------------------------------------------------------------------------------------------
(* The agent of bot.rs.  A Bot is the record of its fields.  memory, a     *)
(* HashMap<Board, Weight>, is the sequence of its entries [key, weight] in *)
(* the order they were inserted; no operation depends on that order.  A   *)
(* Weight is a function from column to i16, played_choices a function     *)
(* from index to Choice.  A call that returns gives Returned(..), a call  *)
(* that panics Crashed(..).                                                *)

I16 == I16_MIN..I16_MAX

\* n as i16 for 0 <= n < 2^31: the low 16 bits, read as two's complement
as_i16(n) == ((n + 32768) % 65536) - 32768

\* the i16 sum a + b: in range it is the sum; out of range the build decides,
\* a panic with overflow checks (debug) and the wrapped sum without (release)
add_i16(a, b, overflow_checks) ==
    IF a + b \in I16 THEN [tag |-> "Some", value |-> a + b]
    ELSE IF overflow_checks THEN [tag |-> "Panic", value |-> 0]
    ELSE [tag |-> "Some", value |-> as_i16(a + b + 65536)]

\* i16::checked_add and i16::checked_sub: <<TRUE, sum>>, or <<FALSE, 0>> for None
checked_add(a, b) == IF a + b \in I16 THEN <<TRUE, a + b>> ELSE <<FALSE, 0>>
checked_sub(a, b) == IF a - b \in I16 THEN <<TRUE, a - b>> ELSE <<FALSE, 0>>

Choice(board, column) == [board |-> board, column |-> column]
Choice_blank == Choice(new, 0)

Weight_blank == [i \in 0..(COLUMN_LEN - 1) |-> 0] @@ <<>>

Reward(base) == [tag |-> "Reward", base |-> base]
Punish(base) == [tag |-> "Punish", base |-> base]

RedWon == "RedWon"
YellowWon == "YellowWon"
Tie == "Tie"

PLAYED_CHOICES_LEN == (COLUMN_LEN * ROW_LEN) \div 2

\* Rand: MODULUS is 2^31, written here as its largest residue
MODULUS_LESS_ONE == 2147483647
MULTIPLIER == 1103515245
INCREMENT == 12345

\* (p + q) % MODULUS for residues p and q, without a sum above MODULUS
add_mod(p, q) ==
    IF p > MODULUS_LESS_ONE - q THEN (p - MODULUS_LESS_ONE - 1) + q ELSE p + q

\* Rand::next on a state below MODULUS: (MULTIPLIER * state + INCREMENT) %
\* MODULUS, the product taken in 16-bit halves of which the one above bit 31
\* is dropped by the modulus
next(state) ==
    LET state_high == state \div 65536
        state_low == state % 65536
        mult_high == MULTIPLIER \div 65536
        mult_low == MULTIPLIER % 65536
        middle == ((mult_high * state_low + mult_low * state_high) % 32768) * 65536
    IN  add_mod(add_mod(middle, mult_low * state_low), INCREMENT)

\* Bot::new
Bot_new(exploration, seed) ==
    [memory |-> <<>>,
     played_choices |-> [i \in 0..(PLAYED_CHOICES_LEN - 1) |-> Choice_blank],
     played_choices_len |-> 0,
     exploration |-> exploration,
     rand |-> seed]

Returned(bot) == [tag |-> "Returned", bot |-> bot, why |-> ""]
Crashed(bot, why) == [tag |-> "Crashed", bot |-> bot, why |-> why]

contains_key(memory, board) == \E k \in 1..Len(memory) : memory[k].key = board

\* the position of a key that is there
index_of(memory, key) == CHOOSE k \in 1..Len(memory) : memory[k].key = key

\* memory.get(key) for a key that is there
get(memory, key) == memory[index_of(memory, key)].weight

\* memory.insert(board, Weight::blank()) for a board that is no key
insert(bot, board) ==
    [bot EXCEPT !.memory = Append(@, [key |-> board, weight |-> Weight_blank])]

\* the second and third branch of get_or_insert_memory_weights, the mirror
\* being board.swap()
or_mirror(bot, board, mirror) ==
    IF contains_key(bot.memory, mirror)
    THEN [bot |-> bot, key |-> mirror, swapped |-> TRUE]
    ELSE [bot |-> insert(bot, board), key |-> board, swapped |-> FALSE]

\* get_or_insert_memory_weights inserting the board although its mirror is a key
get_or_insert_memory_weights_no_mirror(bot, board) ==
    IF contains_key(bot.memory, board)
    THEN [bot |-> bot, key |-> board, swapped |-> FALSE]
    ELSE [bot |-> insert(bot, board), key |-> board, swapped |-> FALSE]

\* the key under which the weights of the board are stored, whether it is the
\* mirror, and the bot after the insertion of a board that had no key
get_or_insert_memory_weights(bot, board) ==
    IF contains_key(bot.memory, board)
    THEN [bot |-> bot, key |-> board, swapped |-> FALSE]
    ELSE or_mirror(bot, board, Settled(swap(board)))

\* the column of the stored weights that stands for a column of the board
stored_column(got, column) ==
    IF got.swapped THEN COLUMN_LEN - 1 - column ELSE column

\* weights.0[column]
weight_at(got, column) == get(got.bot.memory, got.key)[column]

\* *weight = value, in the memory of the bot
set_weight(got, column, value) ==
    [got.bot EXCEPT !.memory[index_of(got.bot.memory, got.key)].weight[column] = value]

\* (0.02 * turn^2) as i16 for the turns before the last: the product is
\* below 8 and the cast drops its fraction
lesson_severity_from_turn(bot, turn) ==
    LET last_turn == bot.played_choices_len - 1
    IN  IF turn = last_turn THEN I16_MAX
        ELSE ((2 * turn) * turn) \div 100

\* a clearing that leaves the log as it is: what clear_played_choices is not
clear_played_choices_not(bot) == bot

\* a clearing that takes the memory with the log: what clear_played_choices
\* is not
clear_played_choices_and_memory(bot) == [bot EXCEPT !.played_choices_len = 0, !.memory = <<>>]

clear_played_choices(bot) == [bot EXCEPT !.played_choices_len = 0]

remember_played_choice(bot, choice) ==
    IF bot.played_choices_len >= PLAYED_CHOICES_LEN
    THEN Crashed(bot, "index out of bounds")
    ELSE Returned([bot EXCEPT !.played_choices[bot.played_choices_len] = choice,
                              !.played_choices_len = @ + 1])

\* the last ply of learn_from_board
result_weight(weight, bot_chip, game_result) ==
    IF game_result = Tie THEN weight
    ELSE IF (game_result = RedWon) = (bot_chip = Red) THEN I16_MAX ELSE I16_MIN

\* the earlier plies of learn_from_board, saturating against the sign of the weight
value_weight_other_way(weight, value) ==
    IF checked_add(weight, value)[1] THEN checked_add(weight, value)[2]
    ELSE IF weight > 0 THEN I16_MIN ELSE I16_MAX

\* the earlier plies of learn_from_board
value_weight(weight, value) ==
    IF checked_add(weight, value)[1] THEN checked_add(weight, value)[2]
    ELSE IF weight > 0 THEN I16_MAX ELSE I16_MIN

\* one pass of the loop of learn_from_board, got being what
\* get_or_insert_memory_weights returned for the board of the ply
board_lesson(b, idx, bot_chip, game_result, got, column) ==
    set_weight(got, column,
        IF idx = b.played_choices_len - 1
        THEN result_weight(weight_at(got, column), bot_chip, game_result)
        ELSE value_weight(weight_at(got, column),
                          value_of_board(b.played_choices[idx].board, bot_chip)))

learn_from_board(bot, bot_chip, game_result) ==
    LET RECURSIVE loop(_, _)
        loop(b, idx) ==
            IF idx >= b.played_choices_len THEN b
            ELSE loop(board_lesson(b, idx, bot_chip, game_result,
                        get_or_insert_memory_weights(b, b.played_choices[idx].board),
                        stored_column(
                            get_or_insert_memory_weights(b, b.played_choices[idx].board),
                            b.played_choices[idx].column)),
                      idx + 1)
    IN  loop(bot, 0)

\* the weight after a lesson of an earlier ply: checked_add or checked_sub of
\* the lesson, and the bound of i16 on the side of the action for None
lesson_weight(weight, action, lesson) ==
    IF action.tag = "Reward"
    THEN IF checked_add(weight, lesson)[1] THEN checked_add(weight, lesson)[2]
         ELSE I16_MAX
    ELSE IF checked_sub(weight, lesson)[1] THEN checked_sub(weight, lesson)[2]
         ELSE I16_MIN

\* one pass of the loop of learn_from_played_choices that does not panic;
\* lesson is lesson_severity + base as i16
played_lesson(action, lesson_severity, lesson, got, column) ==
    set_weight(got, column,
        IF lesson_severity = I16_MAX
        THEN IF action.tag = "Reward" THEN I16_MAX ELSE I16_MIN
        ELSE lesson_weight(weight_at(got, column), action, lesson.value))

\* one pass of the loop of learn_from_played_choices; lesson is
\* lesson_severity + base as i16, which is not worked out for the last ply
learn_step(b, idx, action, lesson_severity, lesson, got) ==
    IF lesson_severity # I16_MAX /\ lesson.tag = "Panic"
    THEN Crashed(got.bot, "attempt to add with overflow")
    ELSE Returned(played_lesson(action, lesson_severity, lesson, got,
                                stored_column(got, b.played_choices[idx].column)))

learn_from_played_choices(bot, action, overflow_checks) ==
    LET RECURSIVE loop(_, _)
        loop(step, idx) ==
            IF step.tag = "Crashed" \/ idx >= step.bot.played_choices_len THEN step
            ELSE loop(learn_step(step.bot, idx, action,
                        lesson_severity_from_turn(step.bot, idx),
                        add_i16(lesson_severity_from_turn(step.bot, idx),
                                as_i16(action.base), overflow_checks),
                        get_or_insert_memory_weights(step.bot,
                                                     step.bot.played_choices[idx].board)),
                      idx + 1)
    IN  loop(Returned(bot), 0)

\* the (column, weight) pairs of the available columns, in column order
available_choices(board, weights) ==
    LET is_available == available_column_choices(board)
        RECURSIVE walk(_)
        walk(col_idx) ==
            IF col_idx = COLUMN_LEN THEN <<>>
            ELSE (IF is_available[col_idx] THEN <<<<col_idx, weights[col_idx]>>>> ELSE <<>>)
                 \o walk(col_idx + 1)
    IN  walk(0)

\* the weights in the column order of the board
board_weights(got) ==
    IF got.swapped
    THEN [i \in 0..(COLUMN_LEN - 1) |-> get(got.bot.memory, got.key)[COLUMN_LEN - 1 - i]]
    ELSE get(got.bot.memory, got.key)

\* max_weight.checked_sub(exploration).unwrap_or(i16::MIN)
threshold_of(max_weight, exploration) ==
    IF checked_sub(max_weight, exploration)[1]
    THEN checked_sub(max_weight, exploration)[2]
    ELSE I16_MIN

\* the columns of the pairs whose weight is within the threshold
within_threshold(choices, threshold) ==
    LET kept == SelectSeq(choices, LAMBDA pair : pair[2] >= threshold)
    IN  [k \in 1..Len(kept) |-> kept[k][1]]

\* a pick that draws a second random number: what pick is not
pick_second_draw(bot, board, admissible, state) ==
    IF Len(admissible) = 0
    THEN Crashed([bot EXCEPT !.rand = state],
                 "attempt to calculate the remainder with a divisor of zero")
         @@ [choice |-> Choice_blank]
    ELSE Returned([bot EXCEPT !.rand = next(state)])
         @@ [choice |-> Choice(board, admissible[(state % Len(admissible)) + 1])]

\* the end of choose: the random pick among the admissible columns
pick(bot, board, admissible, state) ==
    IF Len(admissible) = 0
    THEN Crashed([bot EXCEPT !.rand = state],
                 "attempt to calculate the remainder with a divisor of zero")
         @@ [choice |-> Choice_blank]
    ELSE Returned([bot EXCEPT !.rand = state])
         @@ [choice |-> Choice(board, admissible[(state % Len(admissible)) + 1])]

\* choose from the (column, weight) pairs of the available columns on
choose_among(bot, board, choices) ==
    IF Len(choices) = 0
    THEN Crashed(bot, "game is not tied") @@ [choice |-> Choice_blank]
    ELSE pick(bot, board,
              within_threshold(choices, threshold_of(max_by(choices)[2], bot.exploration)),
              next(bot.rand))

\* choose from what get_or_insert_memory_weights returned on
choose_with(got, board) ==
    choose_among(got.bot, board, available_choices(board, board_weights(got)))

choose(bot, board) == choose_with(get_or_insert_memory_weights(bot, board), board)

\* the exploration GladiatorGame::new gives its agents
GLADIATOR_EXPLORATION == 5

\* seeds given to Bot::new
Seeds == <<8, 0>>
SearchSeeds == {Seeds[1], Seeds[2]}

\* one call of a method of Bot: the bot before and after, the arguments and
\* how the call ended
Call(op, chip, before, outcome, board, column, action, result) ==
    [op |-> op, chip |-> chip, before |-> before, after |-> outcome.bot,
     tag |-> outcome.tag, why |-> outcome.why, board |-> board, column |-> column,
     action |-> action, result |-> result]

NoBots == [chip \in Chip |-> Bot_new(0, 0)]
NoGame == [turn |-> Red, phase |-> "idle"]
\* no tournament
NoArena == [fights |-> <<>>, remainder |-> <<>>]

BotIdle ==
    /\ bots = NoBots
    /\ game = NoGame
    /\ calls = <<>>
    /\ arena = NoArena

-----
(* The placement driver: place_chip calls on one board, starting from      *)
(* Board::new().  A run first replays one of the placement sequences below *)
(* (those of the tests of board.rs, and a row-by-row fill of the board     *)
(* with no four in a row, and one more), then makes up to MaxFree calls    *)
(* with any column argument in 0..COLUMN_LEN and any chip.                 *)

MaxFree == 1
FillLen == 41

Seq2(cols, chip) == [i \in 1..Len(cols) |-> <<cols[i], chip>>]

\* test::winner
TestWinner == Seq2(<<0, 1, 2, 3>>, Red)

\* test::can_win_diagonally_ltr
TestDiagonalLtr ==
    << <<0, Yellow>>, <<1, Red>>, <<1, Yellow>>, <<2, Red>>, <<2, Red>>, <<2, Yellow>>,
       <<3, Red>>, <<3, Red>>, <<3, Red>>, <<3, Yellow>> >>

\* test::can_win_diagonally_rtl
TestDiagonalRtl ==
    << <<3, Yellow>>, <<2, Red>>, <<2, Yellow>>, <<1, Red>>, <<1, Red>>, <<1, Yellow>>,
       <<0, Red>>, <<0, Red>>, <<0, Red>>, <<0, Yellow>> >>

\* test::available_choices, test::swap_boawd
TestAvailableChoices == Seq2(<<0, 0, 1, 2, 3, 0, 0, 0, 0, 0, 0>>, Red)

\* test::win_possibilities_at_position_for_document
TestDocument ==
    << <<0, Red>>, <<0, Red>>, <<2, Yellow>>, <<3, Red>>, <<3, Yellow>>,
       <<5, Yellow>>, <<5, Yellow>>, <<6, Red>>, <<6, Yellow>> >>

\* the first FillLen placements of a row-by-row fill in which the chip at
\* (c, r) is Red iff c + r \div 2 is even: no four in a row in any direction
Fill(n) ==
    [i \in 1..n |->
        LET c == (i - 1) % COLUMN_LEN
            r == (i - 1) \div COLUMN_LEN
        IN  <<c, IF (c + (r \div 2)) % 2 = 0 THEN Red ELSE Yellow>>]

DrawnFill == Fill(FillLen)

\* a row of four completed by its third cell above a mixed row, a call
\* with a column that does not exist, then a column of four on two chips of
\* the other colour and two calls the full column refuses
MiddleOfRow ==
    << <<1, Red>>, <<2, Yellow>>, <<3, Yellow>>, <<4, Red>>, <<5, Yellow>>,
       <<2, Red>>, <<3, Red>>, <<5, Red>>, <<9, Red>>, <<4, Red>>,
       <<6, Yellow>>, <<6, Yellow>>, <<6, Red>>, <<6, Red>>, <<6, Red>>, <<6, Red>>,
       <<6, Yellow>>, <<6, Red>> >>

Scripts ==
    {<<>>, TestWinner, TestDiagonalLtr, TestDiagonalRtl, TestAvailableChoices,
     TestDocument, MiddleOfRow, DrawnFill}

NoCall == [column |-> 0, chip |-> Red,
           result |-> [tag |-> "NoCall", row |-> -1, err |-> None], before |-> new,
           streak |-> 0]

CodecIdle ==
    /\ build = 0
    /\ codec_in = <<>>
    /\ codec_bytes = <<>>
    /\ codec_out = <<>>
    /\ pc = "idle"

NoSearch ==
    [board |-> new, maximizer |-> Red, turn |-> Red, depth |-> 0, results |-> <<>>,
     result |-> [tag |-> "NoCall", column |-> -1, score |-> 0]]

SearchIdle == found = NoSearch

Init ==
    /\ column_pair = new
    /\ script \in Scripts
    /\ free = 0
    /\ last = NoCall
    /\ placed = [c \in 0..(COLUMN_LEN - 1) |-> 0]
    /\ CodecIdle
    /\ SearchIdle
    /\ BotIdle

\* board.place_chip(column, chip) on the live board
Place(column, chip) ==
    LET r == place_chip(column_pair, column, chip)
    IN  /\ column_pair' = r.board
        /\ last' = [column |-> column, chip |-> chip, result |-> r.result,
                    before |-> column_pair,
                    streak |-> IF r.result.tag = "Err" THEN last.streak + 1 ELSE 0]
        /\ placed' = IF r.result.tag = "Ok"
                     THEN [placed EXCEPT ![column] = @ + 1]
                     ELSE placed

PlaceScripted ==
    /\ script # <<>>
    /\ Place(Head(script)[1], Head(script)[2])
    /\ script' = Tail(script)
    /\ UNCHANGED <<free, codecVars, searchVars, botVars>>

PlaceFree(column, chip) ==
    /\ script = <<>>
    /\ free < MaxFree
    /\ Place(column, chip)
    /\ free' = free + 1
    /\ UNCHANGED <<script, codecVars, searchVars, botVars>>

Next ==
    \/ PlaceScripted
    \/ \E column \in 0..COLUMN_LEN, chip \in Chip : PlaceFree(column, chip)

Spec == Init /\ [][Next]_vars

-----------------------------------------------------------------------------
(* The weight codec of bot.rs.  A byte is a number in 0..255, an array of  *)
(* n elements a function on 0..n-1, an i16 a number in -32768..32767.      *)

\* x.to_le_bytes() of an unsigned x of n bytes
to_le_bytes(x, n) ==
    [k \in 0..(n - 1) |->
        x[8 * k] + 2 * x[8 * k + 1] + 4 * x[8 * k + 2] + 8 * x[8 * k + 3]
        + 16 * x[8 * k + 4] + 32 * x[8 * k + 5] + 64 * x[8 * k + 6]
        + 128 * x[8 * k + 7]] @@ <<>>

\* u64::from_le_bytes / u32::from_le_bytes of an array of n bytes
from_le_bytes(bytes, n) ==
    [i \in 0..(8 * n - 1) |-> (bytes[i \div 8] \div (2 ^ (i % 8))) % 2] @@ <<>>

\* w.to_be_bytes() of an i16 w
i16_to_be_bytes(w) ==
    LET u == w % 65536
    IN  (0 :> (u \div 256)) @@ (1 :> (u % 256))

\* w.to_le_bytes() of an i16 w
i16_to_le_bytes(w) ==
    LET u == w % 65536
    IN  (0 :> (u % 256)) @@ (1 :> (u \div 256))

i16_from_le_bytes(bytes) ==
    LET u == bytes[0] + 256 * bytes[1]
    IN  IF u >= 32768 THEN u - 65536 ELSE u

\* size_of::<Weight>(): [i16; COLUMN_LEN]
size_of_Weight == 2 * COLUMN_LEN

\* size_of::<Board>(): the size of the tuple (u64, u32), whose layout the
\* build decides: 16 where u64 is aligned to 8 bytes, 12 where it is aligned
\* to 4
SizesOfBoard == {12, 16}

zeros(n) == [i \in 0..(n - 1) |-> 0] @@ <<>>

\* copy_from_to((src, src_idx), (dest, dest_idx)): the state after the loop;
\* an index past the end of its array panics
RECURSIVE copy_from_to(_, _, _, _, _, _)
copy_from_to(src, src_idx, SRC_LEN, dest, dest_idx, DEST_LEN) ==
    IF dest_idx >= DEST_LEN \/ src_idx >= SRC_LEN
    THEN [dest |-> dest, src_idx |-> src_idx, dest_idx |-> dest_idx, panic |-> TRUE]
    ELSE LET d == [dest EXCEPT ![dest_idx] = src[src_idx]]
         IN  IF dest_idx + 1 = DEST_LEN \/ src_idx + 1 = SRC_LEN
             THEN [dest |-> d, src_idx |-> src_idx + 1, dest_idx |-> dest_idx + 1,
                   panic |-> FALSE]
             ELSE copy_from_to(src, src_idx + 1, SRC_LEN, d, dest_idx + 1, DEST_LEN)

\* serialize_weights with the weights written high byte first
serialize_weights_big_endian(board, weight, size_of_Board) ==
    LET N == size_of_Board + size_of_Weight
        left == to_le_bytes(as_pair(board)[1], 8)
        right == to_le_bytes(as_pair(board)[2], 4)
        s1 == copy_from_to(left, 0, 8, zeros(N), 0, N)
        s2 == copy_from_to(right, 0, 4, s1.dest, s1.dest_idx, N)
        RECURSIVE loop(_, _, _)
        loop(weight_idx, result, result_idx) ==
            LET bytes == i16_to_be_bytes(weight[weight_idx])
                s == copy_from_to(bytes, 0, 2, result, result_idx, N)
            IN  IF weight_idx + 1 = COLUMN_LEN THEN s.dest
                ELSE loop(weight_idx + 1, s.dest, s.dest_idx)
    IN  loop(0, s2.dest, s2.dest_idx)

\* serialize_weights(board, weight): the array [u8; size_of::<Board>() +
\* size_of::<Weight>()] it returns
serialize_weights(board, weight, size_of_Board) ==
    LET N == size_of_Board + size_of_Weight
        left == to_le_bytes(as_pair(board)[1], 8)
        right == to_le_bytes(as_pair(board)[2], 4)
        s1 == copy_from_to(left, 0, 8, zeros(N), 0, N)
        s2 == copy_from_to(right, 0, 4, s1.dest, s1.dest_idx, N)
        RECURSIVE loop(_, _, _)
        loop(weight_idx, result, result_idx) ==
            LET bytes == i16_to_le_bytes(weight[weight_idx])
                s == copy_from_to(bytes, 0, 2, result, result_idx, N)
            IN  IF weight_idx + 1 = COLUMN_LEN THEN s.dest
                ELSE loop(weight_idx + 1, s.dest, s.dest_idx)
    IN  loop(0, s2.dest, s2.dest_idx)

\* deserialize_weights(bytes) of an array of the same length
deserialize_weights(bytes, size_of_Board) ==
    LET N == size_of_Board + size_of_Weight
        s1 == copy_from_to(bytes, 0, N, zeros(8), 0, 8)
        s2 == copy_from_to(bytes, s1.src_idx, N, zeros(4), 0, 4)
        board == from_pair(<<from_le_bytes(s1.dest, 8), from_le_bytes(s2.dest, 4)>>)
        RECURSIVE fill(_, _, _)
        fill(weight_idx, weight_bytes, byte_idx) ==
            LET s == copy_from_to(bytes, byte_idx, N, weight_bytes[weight_idx], 0, 2)
                filled_in == [weight_bytes EXCEPT ![weight_idx] = s.dest]
            IN  IF weight_idx + 1 = COLUMN_LEN THEN filled_in
                ELSE fill(weight_idx + 1, filled_in, s.src_idx)
        weight_bytes == fill(0, [i \in 0..(COLUMN_LEN - 1) |-> zeros(2)], s2.src_idx)
        weight == [i \in 0..(COLUMN_LEN - 1) |-> i16_from_le_bytes(weight_bytes[i])]
    IN  [board |-> board, weights |-> weight @@ <<>>]

-----------------------------------------------------------------------------
(* The codec driver: serialize_weights on a (board, weights) pair, then    *)
(* deserialize_weights on the array it returned, as the test serde does.   *)
(* Boards here are any (u64, u32) pair, not only boards reached by play.   *)

\* the pair whose only set bit is bit k of the 96 bits, counted from the u32
OneBit(k) ==
    <<[i \in 0..63 |-> IF i + 32 = k THEN 1 ELSE 0] @@ <<>>,
      [i \in 0..31 |-> IF i = k THEN 1 ELSE 0] @@ <<>>>>

AllOnes == <<[i \in 0..63 |-> 1] @@ <<>>, [i \in 0..31 |-> 1] @@ <<>>>>

\* Board::from_pair((0x5823847547321748, 0x42348245)) of the test serde
SerdeBoard ==
    from_pair(<<from_le_bytes([i \in 0..7 |-> <<72, 23, 50, 71, 117, 132, 35, 88>>[i + 1]], 8),
                from_le_bytes([i \in 0..3 |-> <<69, 130, 52, 66>>[i + 1]], 4)>>)

\* Weight::from_weights([0x2813, 0x2891, 0x3931, 0x3931, 0x5219, 0x4294, 0x2148])
SerdeWeights ==
    [i \in 0..(COLUMN_LEN - 1) |->
        <<10259, 10385, 14641, 14641, 21017, 17044, 8520>>[i + 1]] @@ <<>>

WeightSamples == {-32768, -32767, -257, -256, -255, -1, 1, 255, 256, 257, 32767}

Uniform(w) == [i \in 0..(COLUMN_LEN - 1) |-> w] @@ <<>>

OneWeight(k, w) == [i \in 0..(COLUMN_LEN - 1) |-> IF i = k THEN w ELSE 0] @@ <<>>

CodecBoards == {new, AllOnes, SerdeBoard} \cup {OneBit(k) : k \in 0..95}

CodecWeights ==
    {SerdeWeights, Uniform(0)}
    \cup {Uniform(w) : w \in WeightSamples}
    \cup {OneWeight(k, w) : k \in 0..(COLUMN_LEN - 1), w \in WeightSamples}

CodecInputs ==
    {[board |-> b, weights |-> SerdeWeights] : b \in CodecBoards}
    \cup {[board |-> b, weights |-> w] : b \in {new, AllOnes, SerdeBoard}, w \in CodecWeights}

BoardIdle ==
    /\ column_pair = new
    /\ script = <<>>
    /\ free = 0
    /\ last = NoCall
    /\ placed = [c \in 0..(COLUMN_LEN - 1) |-> 0]

InitCodec ==
    /\ BoardIdle
    /\ build \in SizesOfBoard
    /\ codec_in \in CodecInputs
    /\ codec_bytes = <<>>
    /\ codec_out = <<>>
    /\ pc = "start"
    /\ SearchIdle
    /\ BotIdle

Serialize ==
    /\ pc = "start"
    /\ codec_bytes' = serialize_weights(codec_in.board, codec_in.weights, build)
    /\ pc' = "serialized"
    /\ UNCHANGED <<boardVars, searchVars, botVars, build, codec_in, codec_out>>

Deserialize ==
    /\ pc = "serialized"
    /\ codec_out' = deserialize_weights(codec_bytes, build)
    /\ pc' = "deserialized"
    /\ UNCHANGED <<boardVars, searchVars, botVars, build, codec_in, codec_bytes>>

NextCodec == Serialize \/ Deserialize

SpecCodec == InitCodec /\ [][NextCodec]_vars

-----------------------------------------------------------------------------
(* The search driver.  A run replays one of the placement sequences below  *)
(* from Board::new() and, at some board on the way, makes one search call: *)
(* minmax (depth DEPTH) on a board with at most MaxEmpty empty cells or on *)
(* the board with two open columns that TwoOpen ends with, or              *)
(* minmax_children at one of the depths NodeDepths, as the search itself   *)
(* calls it near its leaves, on the board a sequence ends with.            *)

MaxEmpty == 4
NodeDepths == {0, 1}

\* the board filled row by row, no four in a row
FullFill == Fill(COLUMN_LEN * ROW_LEN)

\* five rows filled, then Red along the top row: three connected with the
\* fourth cell open, then four in a row with three cells still empty
TopRowWin == Fill(COLUMN_LEN * (ROW_LEN - 1)) \o Seq2(<<0, 1, 2, 3>>, Red)

\* three rows of Red with column 3 left empty
RedRows == Seq2(<<0, 1, 2, 4, 5, 6, 0, 1, 2, 4, 5, 6, 0, 1, 2, 4, 5, 6>>, Red)

\* one column after the other
ColumnOf(column, chips) == [i \in 1..Len(chips) |-> <<column, chips[i]>>]

\* five rows filled and the top row up to column 3: the last empty cell
\* completes four Red in a row
LastCellWin ==
    Fill(COLUMN_LEN * (ROW_LEN - 1))
    \o << <<0, Red>>, <<1, Red>>, <<2, Red>>, <<4, Yellow>>, <<5, Red>>, <<6, Yellow>> >>

\* columns 0..4 full with no four in a row, Red on (2, 0), (3, 0), (4, 0) and
\* columns 5 and 6 empty: the board cannot fill within DEPTH + 1 placements
TwoOpen ==
    ColumnOf(0, <<Yellow, Yellow, Yellow, Red, Red, Red>>)
    \o ColumnOf(1, <<Yellow, Red, Yellow, Red, Yellow, Red>>)
    \o ColumnOf(2, <<Red, Yellow, Yellow, Yellow, Red, Yellow>>)
    \o ColumnOf(3, <<Red, Yellow, Red, Yellow, Red, Red>>)
    \o ColumnOf(4, <<Red, Red, Red, Yellow, Red, Red>>)

SearchScripts ==
    {FullFill, TopRowWin, LastCellWin, TwoOpen, RedRows, TestWinner, TestDocument}

OpenColumns(b) ==
    Cardinality({column \in 0..(COLUMN_LEN - 1) : available_column_choices(b)[column]})

Empty(b) == COLUMN_LEN * ROW_LEN - count_ones(as_u128(b), U128)

InitSearch ==
    /\ column_pair = new
    /\ script \in SearchScripts
    /\ free = 0
    /\ last = NoCall
    /\ placed = [c \in 0..(COLUMN_LEN - 1) |-> 0]
    /\ CodecIdle
    /\ SearchIdle
    /\ BotIdle

\* the next placement of the sequence, while no search has been made
PlaceBeforeSearch ==
    /\ found = NoSearch
    /\ PlaceScripted

\* board.minmax(maximizer, turn): minmax_children at depth DEPTH, its
\* children kept beside the value it returns
Minmax(maximizer, turn) ==
    /\ found = NoSearch
    /\ calls = <<>>
    /\ \/ Empty(column_pair) <= MaxEmpty
       \/ script = <<>> /\ OpenColumns(column_pair) <= 2
    /\ \E results \in {minmax_children_results(column_pair, maximizer, turn, DEPTH)} :
            found' = [board |-> column_pair, maximizer |-> maximizer, turn |-> turn,
                      depth |-> DEPTH, results |-> results,
                      result |-> chosen_child(results, maximizer, turn)]
    /\ UNCHANGED <<boardVars, codecVars, botVars>>

\* board.minmax_children(maximizer, turn, depth), its children kept beside
\* the value it returns
SearchNode(maximizer, turn, depth) ==
    /\ found = NoSearch
    /\ calls = <<>>
    /\ script = <<>>
    /\ \E results \in {minmax_children_results(column_pair, maximizer, turn, depth)} :
            found' = [board |-> column_pair, maximizer |-> maximizer, turn |-> turn,
                      depth |-> depth, results |-> results,
                      result |-> chosen_child(results, maximizer, turn)]
    /\ UNCHANGED <<boardVars, codecVars, botVars>>

\* bot.choose(self.board) of start_against_bot, on the board the placements
\* have led to and with an agent as GladiatorGame::new builds it
ChooseOnBoard(seed) ==
    /\ found = NoSearch
    /\ calls = <<>>
    /\ script = <<>>
    /\ \E chosen \in {choose(Bot_new(GLADIATOR_EXPLORATION, seed), column_pair)} :
        /\ calls' = <<Call("choose", Yellow, Bot_new(GLADIATOR_EXPLORATION, seed), chosen,
                           column_pair, chosen.choice.column, Reward(0), None)>>
        /\ bots' = [bots EXCEPT ![Yellow] = chosen.bot]
    /\ UNCHANGED <<boardVars, codecVars, searchVars, game, arena>>

NextSearch ==
    \/ PlaceBeforeSearch
    \/ \E maximizer \in Chip, turn \in Chip : Minmax(maximizer, turn)
    \/ \E maximizer \in Chip, turn \in Chip, depth \in NodeDepths :
          SearchNode(maximizer, turn, depth)
    \/ \E seed \in SearchSeeds : ChooseOnBoard(seed)

SpecSearch == InitSearch /\ [][NextSearch]_vars

-----------------------------------------------------------------------------
(* The training driver.  Two agents built by Bot::new first play against    *)
(* each other under a caller that uses the public methods as the trainers   *)
(* do (choose, remember_played_choice, place_chip), for the number of plies *)
(* of its plan; the caller then gives one of the agents the lessons of the  *)
(* plan with learn_from_played_choices and either stops or hands both       *)
(* agents, as they are, to BotTrainerBoardPosition.  Turn is one pass of    *)
(* the loop of start_match: the agent of the turn chooses, the choice is    *)
(* logged and placed, and a pass that ends the game teaches both agents and *)
(* clears their logs.  NextMatch is the next pass of start_with_iterations. *)

MaxMatches == 2

Explorations == {-1, GLADIATOR_EXPLORATION}
Plies == {0, 3, 20}
Lessons == {<<>>, <<Reward(32767)>>, <<Punish(32767)>>, <<Reward(40000)>>}

\* the callers: each teaches one agent after its plies and stops, or teaches
\* after a few plies and hands the agents over, or hands them over untaught
Plans ==
    {plan \in [plies : Plies, chip : Chip, lessons : Lessons, hand_over : BOOLEAN] :
        plan.hand_over => \/ plan.plies < PLAYED_CHOICES_LEN - 1
                          \/ plan.lessons = <<>> /\ plan.chip = Red}

\* seeds with which the first match of the trainer fills the board
TiedSeeds == <<1, 6>>

\* the caller that hands the agents over as Bot::new built them
NoPlan == [plies |-> 0, chip |-> Red, lessons |-> <<>>, hand_over |-> TRUE]

\* the agents and the plan of a run: every plan with the seeds of Seeds, and
\* the trainer alone with those of TiedSeeds
Starts ==
    [exploration : Explorations, seeds : {Seeds}, plan : Plans]
    \cup {[exploration |-> GLADIATOR_EXPLORATION, seeds |-> TiedSeeds, plan |-> NoPlan]}

InitBot ==
    /\ BoardIdle
    /\ CodecIdle
    /\ SearchIdle
    /\ \E start \in Starts :
        /\ bots = (Red :> Bot_new(start.exploration, start.seeds[1]))
                  @@ (Yellow :> Bot_new(start.exploration, start.seeds[2]))
        /\ game = [turn |-> Red, phase |-> "caller", matches |-> 0, plies |-> 0,
                   plan |-> start.plan, lessons |-> start.plan.lessons,
                   result |-> None]
    /\ calls = <<>>
    /\ arena = NoArena

\* the calls every pass of a game loop makes: choose, remember_played_choice
\* and place_chip
played_ply(bot, board, turn, chosen, remembered, placed_chip) ==
    [crashed |-> \/ chosen.tag = "Crashed"
                 \/ remembered.tag = "Crashed"
                 \/ placed_chip.result.tag = "Err",
     bot |-> remembered.bot,
     board |-> Settled(placed_chip.board),
     column |-> chosen.choice.column,
     row |-> placed_chip.result.row,
     calls |-> <<Call("choose", turn, bot, chosen, board, chosen.choice.column,
                      Reward(0), None)>>]

chosen_ply(bot, board, turn, chosen) ==
    played_ply(bot, board, turn, chosen,
               remember_played_choice(chosen.bot, chosen.choice),
               place_chip(board, chosen.choice.column, turn))

ply(bot, board, turn) == chosen_ply(bot, board, turn, choose(bot, board))

CallerTurn ==
    /\ game.phase = "caller"
    /\ game.plies < game.plan.plies
    /\ \E played \in {ply(bots[game.turn], column_pair, game.turn)} :
        /\ calls' = played.calls
        /\ IF played.crashed
           THEN /\ game' = [game EXCEPT !.phase = "crashed"]
                /\ UNCHANGED <<bots, column_pair>>
           ELSE /\ column_pair' = played.board
                /\ bots' = [bots EXCEPT ![game.turn] = played.bot]
                /\ game' = [game EXCEPT
                             !.turn = opposite(@),
                             !.plies = @ + 1,
                             !.phase =
                                 IF \/ winner(played.board, played.column,
                                              played.row) # None
                                    \/ filled(played.board)
                                 THEN "stopped" ELSE @]
    /\ UNCHANGED <<script, free, last, placed, codecVars, searchVars, arena>>

Teach(overflow_checks) ==
    /\ game.phase = "caller"
    /\ game.plies = game.plan.plies
    /\ game.lessons # <<>>
    /\ \E taught \in {learn_from_played_choices(bots[game.plan.chip], Head(game.lessons),
                                                overflow_checks)} :
        /\ calls' = <<Call("learn_from_played_choices", game.plan.chip,
                           bots[game.plan.chip], taught, new, 0, Head(game.lessons),
                           None)>>
        /\ bots' = [bots EXCEPT ![game.plan.chip] = taught.bot]
        /\ game' = [game EXCEPT !.lessons = Tail(@),
                                !.phase = IF taught.tag = "Crashed" THEN "crashed"
                                          ELSE @]
    /\ UNCHANGED <<boardVars, codecVars, searchVars, arena>>

\* BotTrainerBoardPosition::new and the first pass of start_with_iterations
HandOver ==
    /\ game.phase = "caller"
    /\ game.plies = game.plan.plies
    /\ game.lessons = <<>>
    /\ game.plan.hand_over
    /\ column_pair' = new
    /\ game' = [game EXCEPT !.turn = Red, !.phase = "playing", !.matches = 1]
    /\ calls' = <<>>
    /\ UNCHANGED <<bots, script, free, last, placed, codecVars, searchVars, arena>>

\* the end of a match that has a winner, after the lessons of both agents
won_boards(winner_bot, loser_bot, turn, game_result, rewarded, punished, winner_board, loser_board) ==
    [bots |-> (turn :> clear_played_choices(winner_board.bot))
              @@ (opposite(turn) :> clear_played_choices(loser_board.bot)),
     crashed |-> rewarded.tag = "Crashed" \/ punished.tag = "Crashed",
     calls |-> <<Call("learn_from_played_choices", turn, winner_bot, rewarded,
                      new, 0, Reward(10), game_result),
                 Call("learn_from_played_choices", opposite(turn), loser_bot,
                      punished, new, 0, Punish(10), game_result),
                 Call("learn_from_board", Red, rewarded.bot, winner_board,
                      new, 0, Reward(0), game_result),
                 Call("learn_from_board", Yellow, punished.bot, loser_board,
                      new, 0, Reward(0), game_result)>>]

won_lessons(winner_bot, loser_bot, turn, game_result, rewarded, punished) ==
    won_boards(winner_bot, loser_bot, turn, game_result, rewarded, punished,
               Returned(learn_from_board(rewarded.bot, Red, game_result)),
               Returned(learn_from_board(punished.bot, Yellow, game_result)))

\* the end of a match that has a winner: the lessons of both agents
won_match(winner_bot, loser_bot, turn, overflow_checks) ==
    won_lessons(winner_bot, loser_bot, turn,
                IF turn = Red THEN RedWon ELSE YellowWon,
                learn_from_played_choices(winner_bot, Reward(10), overflow_checks),
                learn_from_played_choices(loser_bot, Punish(10), overflow_checks))

tied_boards(red_bot, yellow_bot, red_board, yellow_board) ==
    [bots |-> (Red :> clear_played_choices(red_board.bot))
              @@ (Yellow :> clear_played_choices(yellow_board.bot)),
     crashed |-> FALSE,
     calls |-> <<Call("learn_from_board", Red, red_bot, red_board,
                      new, 0, Reward(0), Tie),
                 Call("learn_from_board", Yellow, yellow_bot, yellow_board,
                      new, 0, Reward(0), Tie)>>]

\* the end of a match on a filled board
tied_match(red_bot, yellow_bot) ==
    tied_boards(red_bot, yellow_bot,
                Returned(learn_from_board(red_bot, Red, Tie)),
                Returned(learn_from_board(yellow_bot, Yellow, Tie)))

\* the calls made up to the first that panics: none is made after it
RECURSIVE until_panic(_)
until_panic(made) ==
    IF made = <<>> THEN <<>>
    ELSE IF Head(made).tag = "Crashed" THEN <<Head(made)>>
    ELSE <<Head(made)>> \o until_panic(Tail(made))

\* what is left of a pass of start_match after the chip is placed
ended_match(played, with, turn, overflow_checks) ==
    IF winner(played.board, played.column, played.row) # None
    THEN won_match(with[turn], with[opposite(turn)], turn, overflow_checks)
         @@ [result |-> IF turn = Red THEN RedWon ELSE YellowWon]
    ELSE IF filled(played.board)
    THEN tied_match(with[Red], with[Yellow]) @@ [result |-> Tie]
    ELSE [bots |-> with, crashed |-> FALSE, calls |-> <<>>, result |-> None]

Turn(overflow_checks) ==
    /\ game.phase = "playing"
    /\ \E played \in {ply(bots[game.turn], column_pair, game.turn)} :
        IF played.crashed
        THEN /\ game' = [game EXCEPT !.phase = "crashed"]
             /\ calls' = played.calls
             /\ UNCHANGED <<bots, column_pair>>
        ELSE \E ended \in {ended_match(played, [bots EXCEPT ![game.turn] = played.bot],
                                       game.turn, overflow_checks)} :
             /\ column_pair' = played.board
             /\ bots' = ended.bots
             /\ calls' = until_panic(played.calls \o ended.calls)
             /\ game' = [game EXCEPT
                          !.turn = IF ended.result = None THEN opposite(@) ELSE @,
                          !.phase = IF ended.crashed THEN "crashed"
                                    ELSE IF ended.result = None THEN @ ELSE "over",
                          !.result = ended.result]
    /\ UNCHANGED <<script, free, last, placed, codecVars, searchVars, arena>>

\* start_with_iterations: the agents change sides and a new game starts
NextMatch ==
    /\ game.phase = "over"
    /\ game.matches < MaxMatches
    /\ column_pair' = new
    /\ bots' = (Red :> bots[Yellow]) @@ (Yellow :> bots[Red])
    /\ game' = [game EXCEPT !.turn = Red, !.phase = "playing", !.matches = @ + 1,
                            !.result = None]
    /\ calls' = <<>>
    /\ UNCHANGED <<script, free, last, placed, codecVars, searchVars, arena>>

NextBot ==
    \/ CallerTurn
    \/ \E overflow_checks \in BOOLEAN : Teach(overflow_checks)
    \/ HandOver
    \/ \E overflow_checks \in BOOLEAN : Turn(overflow_checks)
    \/ NextMatch

SpecBot == InitBot /\ [][NextBot]_vars

-----------------------------------------------------------------------------
(* The trainers.  A run is the first MaxMatches games of one trainer's       *)
(* start_with_iterations on agents as Bot::new built them, or a tournament  *)
(* of GladiatorBotTrainer.  A step is one pass of the loop of a game: the   *)
(* side of the turn moves and a pass that ends the game gives the lessons   *)
(* and clears the logs.  game.moves keeps the plies of the game under way:  *)
(* the side, the board before the move, the column and who chose it.        *)

PairTrainers == {"BotTrainerGameResult", "BotTrainerBoardPosition"}

\* who chose a move: choose of the agent, or board.minmax(maximizer, turn)
By(op, maximizer, turn) == [op |-> op, maximizer |-> maximizer, turn |-> turn]
ByChoose == By("choose", None, None)

Move(chip, board, column, by) == [chip |-> chip, board |-> board, column |-> column, by |-> by]

\* choose, remember_played_choice and place_chip with the call of
\* remember_played_choice kept beside that of choose
remembered_ply(bot, board, turn, chosen, remembered, placed_chip) ==
    [played_ply(bot, board, turn, chosen, remembered, placed_chip) EXCEPT
        !.calls = until_panic(@ \o <<Call("remember_played_choice", turn, chosen.bot,
                                          remembered, board, chosen.choice.column,
                                          Reward(0), None)>>)]

trained_ply(bot, board, turn, chosen) ==
    remembered_ply(bot, board, turn, chosen,
                   remember_played_choice(chosen.bot, chosen.choice),
                   place_chip(board, chosen.choice.column, turn))

train_ply(bot, board, turn) == trained_ply(bot, board, turn, choose(bot, board))

\* bot.clear_played_choices() as a call
cleared(bot, chip) ==
    Call("clear_played_choices", chip, bot, Returned(clear_played_choices(bot)),
         new, 0, Reward(0), None)

\* the lessons of a game for the agent of a side and then for the other, and
\* the clearing of both logs, taught and other_taught being what
\* learn_from_played_choices returned
taught_pair(bot, other, chip, action, other_action, game_result, taught, other_taught) ==
    [bots |-> (chip :> clear_played_choices(taught.bot))
              @@ (opposite(chip) :> clear_played_choices(other_taught.bot)),
     crashed |-> taught.tag = "Crashed" \/ other_taught.tag = "Crashed",
     result |-> game_result,
     calls |-> until_panic(
                 <<Call("learn_from_played_choices", chip, bot, taught,
                        new, 0, action, game_result),
                   Call("learn_from_played_choices", opposite(chip), other, other_taught,
                        new, 0, other_action, game_result),
                   cleared(taught.bot, chip),
                   cleared(other_taught.bot, opposite(chip))>>)]

teach_pair(bot, other, chip, action, other_action, game_result, overflow_checks) ==
    taught_pair(bot, other, chip, action, other_action, game_result,
                learn_from_played_choices(bot, action, overflow_checks),
                learn_from_played_choices(other, other_action, overflow_checks))

\* the end of a pass with the lessons of a win the other way round: what
\* game_result_ended is not
game_result_ended_loser_rewarded(played, with, turn, overflow_checks) ==
    IF winner(played.board, played.column, played.row) # None
    THEN teach_pair(with[turn], with[opposite(turn)], turn, Punish(10), Reward(10),
                    IF turn = Red THEN RedWon ELSE YellowWon, overflow_checks)
    ELSE IF filled(played.board)
    THEN teach_pair(with[Red], with[Yellow], Red, Punish(1), Reward(1), Tie,
                    overflow_checks)
    ELSE [bots |-> with, crashed |-> FALSE, calls |-> <<>>, result |-> None]

\* what is left of a pass of BotTrainerGameResult::start_match after the
\* chip is placed
game_result_ended(played, with, turn, overflow_checks) ==
    IF winner(played.board, played.column, played.row) # None
    THEN teach_pair(with[turn], with[opposite(turn)], turn, Reward(10), Punish(10),
                    IF turn = Red THEN RedWon ELSE YellowWon, overflow_checks)
    ELSE IF filled(played.board)
    THEN teach_pair(with[Red], with[Yellow], Red, Punish(1), Reward(1), Tie,
                    overflow_checks)
    ELSE [bots |-> with, crashed |-> FALSE, calls |-> <<>>, result |-> None]

\* the first game of a trainer
FirstGame(trainer) ==
    [trainer |-> trainer, turn |-> Red, phase |-> "training", matches |-> 1,
     result |-> None, moves |-> <<>>, bot_turn |-> Red, policy |-> "none"]

InitPair ==
    /\ \E seeds \in {Seeds, TiedSeeds} :
          bots = (Red :> Bot_new(GLADIATOR_EXPLORATION, seeds[1]))
                 @@ (Yellow :> Bot_new(GLADIATOR_EXPLORATION, seeds[2]))
    /\ \E trainer \in PairTrainers : game = FirstGame(trainer)
    /\ arena = NoArena

\* the state after a pass of the loop of a game: played is the ply, ended
\* what followed the placement
Passed(played, ended, by) ==
    /\ column_pair' = played.board
    /\ bots' = ended.bots
    /\ calls' = until_panic(played.calls \o ended.calls)
    /\ game' = [game EXCEPT
                 !.turn = IF ended.result = None THEN opposite(@) ELSE @,
                 !.phase = IF ended.crashed THEN "crashed"
                           ELSE IF ended.result = None THEN @ ELSE "trained",
                 !.result = ended.result,
                 !.moves = Append(@, Move(game.turn, column_pair, played.column, by))]

\* the state after a pass that panicked before the chip was placed
Panicked(made) ==
    /\ game' = [game EXCEPT !.phase = "crashed"]
    /\ calls' = made
    /\ UNCHANGED <<bots, column_pair>>

\* a pass of the loop of start_match of the two trainers of a pair of agents
PairTurn(overflow_checks) ==
    /\ game.phase = "training"
    /\ game.trainer \in PairTrainers
    /\ \E played \in {train_ply(bots[game.turn], column_pair, game.turn)} :
        IF played.crashed THEN Panicked(played.calls)
        ELSE \E with \in {[bots EXCEPT ![game.turn] = played.bot]} :
             \E ended \in {IF game.trainer = "BotTrainerGameResult"
                           THEN game_result_ended(played, with, game.turn, overflow_checks)
                           ELSE ended_match(played, with, game.turn, overflow_checks)} :
                Passed(played, ended, ByChoose)
    /\ UNCHANGED <<script, free, last, placed, codecVars, searchVars, arena>>

\* a next game with the agents on the sides they had: what NextPairGame is
\* not
NextPairGame_no_swap ==
    /\ game.phase = "trained"
    /\ game.trainer \in PairTrainers
    /\ game.matches < MaxMatches
    /\ column_pair' = new
    /\ game' = [game EXCEPT !.turn = Red, !.phase = "training", !.matches = @ + 1,
                            !.result = None, !.moves = <<>>]
    /\ calls' = <<>>
    /\ UNCHANGED <<bots, script, free, last, placed, codecVars, searchVars, arena>>

\* start_with_iterations of the two trainers of a pair: the agents change
\* sides and a new game starts
NextPairGame ==
    /\ game.phase = "trained"
    /\ game.trainer \in PairTrainers
    /\ game.matches < MaxMatches
    /\ column_pair' = new
    /\ bots' = (Red :> bots[Yellow]) @@ (Yellow :> bots[Red])
    /\ game' = [game EXCEPT !.turn = Red, !.phase = "training", !.matches = @ + 1,
                            !.result = None, !.moves = <<>>]
    /\ calls' = <<>>
    /\ UNCHANGED <<script, free, last, placed, codecVars, searchVars, arena>>

-----------------------------------------------------------------------------
(* MinMaxBotTrainer.  The agent that learns is bots[game.bot_turn]; the     *)
(* other side is board.minmax.  A search at DEPTH from the boards of a game *)
(* that starts empty is out of reach here: what the trainer takes from it   *)
(* is a column that is available, and the model takes that column from a    *)
(* policy fixed for the run.                                                *)

MinmaxPolicies == {"lowest", "highest", "middle"}

AvailableColumns(board) ==
    {column \in 0..(COLUMN_LEN - 1) : available_column_choices(board)[column]}

\* the distance of a column from the middle column
FromMiddle(column) ==
    IF column >= COLUMN_LEN \div 2 THEN column - COLUMN_LEN \div 2
    ELSE COLUMN_LEN \div 2 - column

\* the column of Minmaxxing::Position for board.minmax(maximizer, turn) on a
\* board with an available column
minmax_position(available, policy) ==
    IF policy = "lowest" THEN CHOOSE column \in available : \A other \in available : column <= other
    ELSE IF policy = "highest"
    THEN CHOOSE column \in available : \A other \in available : column >= other
    ELSE CHOOSE column \in available :
            \A other \in available :
                \/ FromMiddle(column) < FromMiddle(other)
                \/ FromMiddle(column) = FromMiddle(other) /\ column <= other

\* the pass of the side that does not learn: no method of the agent is called
minmax_ply(bot, board, turn, column, placed_chip) ==
    [crashed |-> placed_chip.result.tag = "Err",
     bot |-> bot,
     board |-> Settled(placed_chip.board),
     column |-> column,
     row |-> placed_chip.result.row,
     calls |-> <<>>]

\* the lesson of a game for the agent and the clearing of its log
taught_one(bot, chip, action, game_result, taught) ==
    [bots |-> (chip :> clear_played_choices(taught.bot))
              @@ (opposite(chip) :> NoBots[opposite(chip)]),
     crashed |-> taught.tag = "Crashed",
     result |-> game_result,
     calls |-> until_panic(
                 <<Call("learn_from_played_choices", chip, bot, taught,
                        new, 0, action, game_result),
                   cleared(taught.bot, chip)>>)]

teach_one(bot, chip, action, game_result, overflow_checks) ==
    taught_one(bot, chip, action, game_result,
               learn_from_played_choices(bot, action, overflow_checks))

\* the end of a pass with Punish(10) for a win of the agent and Reward(10)
\* for a win of the minmax side: what minmax_trainer_ended is not
minmax_trainer_ended_other_way(played, bot, bot_turn, won, overflow_checks) ==
    IF won # None
    THEN teach_one(bot, bot_turn, IF won = bot_turn THEN Punish(10) ELSE Reward(10),
                   IF won = Red THEN RedWon ELSE YellowWon, overflow_checks)
    ELSE IF filled(played.board)
    THEN teach_one(bot, bot_turn, IF bot_turn = Red THEN Punish(1) ELSE Reward(1),
                   Tie, overflow_checks)
    ELSE [bots |-> (bot_turn :> bot) @@ (opposite(bot_turn) :> NoBots[opposite(bot_turn)]),
          crashed |-> FALSE, calls |-> <<>>, result |-> None]

\* what is left of a pass of MinMaxBotTrainer::start_match after the chip is
\* placed, won being winner(placed_column, placed_row)
minmax_trainer_ended(played, bot, bot_turn, won, overflow_checks) ==
    IF won # None
    THEN teach_one(bot, bot_turn, IF won = bot_turn THEN Reward(10) ELSE Punish(10),
                   IF won = Red THEN RedWon ELSE YellowWon, overflow_checks)
    ELSE IF filled(played.board)
    THEN teach_one(bot, bot_turn, IF bot_turn = Red THEN Punish(1) ELSE Reward(1),
                   Tie, overflow_checks)
    ELSE [bots |-> (bot_turn :> bot) @@ (opposite(bot_turn) :> NoBots[opposite(bot_turn)]),
          crashed |-> FALSE, calls |-> <<>>, result |-> None]

\* the seeds of the agents MinMaxBotTrainer trains
LearnerSeeds == {Seeds[1], TiedSeeds[1]}

InitMinmaxTrainer ==
    /\ \E seed \in LearnerSeeds :
          bots = (Red :> Bot_new(GLADIATOR_EXPLORATION, seed)) @@ (Yellow :> NoBots[Yellow])
    /\ \E policy \in MinmaxPolicies :
          game = [FirstGame("MinMaxBotTrainer") EXCEPT !.policy = policy]
    /\ arena = NoArena

\* a pass of the loop of MinMaxBotTrainer::start_match
MinmaxTrainerTurn(overflow_checks) ==
    /\ game.phase = "training"
    /\ game.trainer = "MinMaxBotTrainer"
    /\ \E by \in {IF game.turn = game.bot_turn THEN ByChoose
                  ELSE By("minmax", opposite(game.bot_turn), game.turn)} :
       \E played \in {IF game.turn = game.bot_turn
                      THEN train_ply(bots[game.bot_turn], column_pair, game.turn)
                      ELSE minmax_ply(bots[game.bot_turn], column_pair, game.turn,
                               minmax_position(AvailableColumns(column_pair), game.policy),
                               place_chip(column_pair,
                                   minmax_position(AvailableColumns(column_pair),
                                                   game.policy),
                                   game.turn))} :
        IF played.crashed THEN Panicked(played.calls)
        ELSE \E ended \in {minmax_trainer_ended(played, played.bot, game.bot_turn,
                               winner(played.board, played.column, played.row),
                               overflow_checks)} :
                Passed(played, ended, by)
    /\ UNCHANGED <<script, free, last, placed, codecVars, searchVars, arena>>

\* MinMaxBotTrainer::start_with_iterations: the agent takes the other chip and
\* a new game starts
NextMinmaxTrainerGame ==
    /\ game.phase = "trained"
    /\ game.trainer = "MinMaxBotTrainer"
    /\ game.matches < MaxMatches
    /\ column_pair' = new
    /\ bots' = (Red :> bots[Yellow]) @@ (Yellow :> bots[Red])
    /\ game' = [game EXCEPT !.turn = Red, !.phase = "training", !.matches = @ + 1,
                            !.result = None, !.moves = <<>>,
                            !.bot_turn = opposite(@)]
    /\ calls' = <<>>
    /\ UNCHANGED <<script, free, last, placed, codecVars, searchVars, arena>>

-----------------------------------------------------------------------------
(* GladiatorBotTrainer.  An agent of the tournament carries the number it   *)
(* was built with, so that the agent returned can be told from the others;  *)
(* arena.lost holds the numbers of the agents that lost an evaluation and   *)
(* arena.rounds the number of fights of every round so far; arena.listed is *)
(* the pair under evaluation as it was built, arena.winners the winners of  *)
(* its games so far and arena.returned the agent evaluate returned last.    *)
(* The pair under evaluation is in bots, its numbers and tallies in arena.  *)
(* An Option<Bot> is a sequence of no agent or of one.                      *)

MaxArena == 3

\* the seed of GladiatorBotTrainer::new
ARENA_SEED == 263459

Agent(id, bot) == [id |-> id, bot |-> bot]

\* GladiatorGame::new_from_bots(red_bot, yellow_bot)
new_from_bots(red_bot, yellow_bot) == [red_bot |-> red_bot, yellow_bot |-> yellow_bot]

GameStatistics_new == [red_wins |-> 0, yellow_wins |-> 0, ties |-> 0]

\* GladiatorGame::new(rand) for the fight of an index, with the state of
\* rand after each of its two calls of next
GladiatorGame_new(index, red_seed, yellow_seed) ==
    new_from_bots(Agent(2 * index + 1, Bot_new(GLADIATOR_EXPLORATION, red_seed)),
                  Agent(2 * index + 2, Bot_new(GLADIATOR_EXPLORATION, yellow_seed)))

\* Vec::from_iter((0..arena_size).map(|_| GladiatorGame::new(&mut rand)))
RECURSIVE fights_from(_, _, _)
fights_from(index, arena_size, rand) ==
    IF index = arena_size THEN <<>>
    ELSE <<GladiatorGame_new(index, next(rand), next(next(rand)))>>
         \o fights_from(index + 1, arena_size, next(next(rand)))

\* GladiatorBotTrainer::new(arena_size), and the iterations given to
\* the_one_bot_to_rule_them_all
GladiatorBotTrainer_new(arena_size, iterations) ==
    [fights |-> fights_from(0, arena_size, ARENA_SEED),
     remainder |-> <<>>,
     games |-> <<>>,
     current |-> <<>>,
     ids |-> (Red :> 0) @@ (Yellow :> 0),
     statistics |-> GameStatistics_new,
     iterations |-> iterations,
     arena_size |-> arena_size,
     lost |-> {},
     rounds |-> <<>>,
     listed |-> <<>>,
     winners |-> <<>>,
     returned |-> 0]

InitArena ==
    /\ bots = NoBots
    /\ game = [FirstGame("GladiatorBotTrainer") EXCEPT !.phase = "round", !.matches = 0]
    /\ \E arena_size \in 1..MaxArena, iterations \in 0..MaxMatches :
          arena = GladiatorBotTrainer_new(arena_size, iterations)

\* the top of the loop of the_one_bot_to_rule_them_all: the fights are moved
\* into games
StartRound ==
    /\ game.trainer = "GladiatorBotTrainer"
    /\ game.phase = "round"
    /\ arena' = [arena EXCEPT !.games = arena.fights, !.fights = <<>>,
                              !.current = <<>>,
                              !.rounds = Append(@, Len(arena.fights))]
    /\ game' = [game EXCEPT !.phase = "pairing"]
    /\ calls' = <<>>
    /\ UNCHANGED <<bots, boardVars, codecVars, searchVars>>

\* winners.next() with a game left: evaluate(iterations) starts on it
Evaluate ==
    /\ game.trainer = "GladiatorBotTrainer"
    /\ game.phase = "pairing"
    /\ arena.games # <<>>
    /\ bots' = (Red :> Head(arena.games).red_bot.bot)
               @@ (Yellow :> Head(arena.games).yellow_bot.bot)
    /\ arena' = [arena EXCEPT !.ids = (Red :> Head(arena.games).red_bot.id)
                                      @@ (Yellow :> Head(arena.games).yellow_bot.id),
                              !.statistics = GameStatistics_new,
                              !.games = Tail(@),
                              !.listed = <<Head(arena.games).red_bot.id,
                                           Head(arena.games).yellow_bot.id>>,
                              !.winners = <<>>,
                              !.returned = 0]
    /\ column_pair' = new
    /\ game' = [game EXCEPT !.turn = Red, !.matches = 0, !.result = None, !.moves = <<>>,
                            !.phase = IF arena.iterations = 0 THEN "evaluated"
                                      ELSE "training"]
    /\ calls' = <<>>
    /\ UNCHANGED <<script, free, last, placed, codecVars, searchVars>>

\* choose and place_chip of a pass of the loop of evaluate
gladiator_ply(bot, board, turn, chosen) ==
    played_ply(bot, board, turn, chosen, Returned(chosen.bot),
               place_chip(board, chosen.choice.column, turn))

\* the tallies after a game
tallied(statistics, game_result) ==
    IF game_result = RedWon THEN [statistics EXCEPT !.red_wins = @ + 1]
    ELSE IF game_result = YellowWon THEN [statistics EXCEPT !.yellow_wins = @ + 1]
    ELSE IF game_result = Tie THEN [statistics EXCEPT !.ties = @ + 1]
    ELSE statistics

\* what is left of a pass of the loop of evaluate after the chip is placed,
\* game_result being the result the inner loop broke with
evaluate_ended(with, game_result, overflow_checks) ==
    IF game_result = RedWon
    THEN teach_pair(with[Red], with[Yellow], Red, Reward(10), Punish(10), game_result,
                    overflow_checks)
    ELSE IF game_result = YellowWon
    THEN teach_pair(with[Red], with[Yellow], Red, Punish(10), Reward(10), game_result,
                    overflow_checks)
    ELSE IF game_result = Tie
    THEN teach_pair(with[Red], with[Yellow], Red, Punish(1), Reward(1), game_result,
                    overflow_checks)
    ELSE [bots |-> with, crashed |-> FALSE, calls |-> <<>>, result |-> None]

\* a result that names the chip that did not move: what broke_with is not
broke_with_other_chip(played, turn) ==
    IF winner(played.board, played.column, played.row) # None
    THEN IF turn = Red THEN YellowWon ELSE RedWon
    ELSE IF filled(played.board) THEN Tie ELSE None

\* the result the inner loop of evaluate breaks with, None while the game
\* goes on
broke_with(played, turn) ==
    IF winner(played.board, played.column, played.row) # None
    THEN IF turn = Red THEN RedWon ELSE YellowWon
    ELSE IF filled(played.board) THEN Tie ELSE None

\* the number of the agent that won the game a pass ended, 0 for a tie
won_by(game_result, ids) ==
    IF game_result = RedWon THEN <<ids[Red]>>
    ELSE IF game_result = YellowWon THEN <<ids[Yellow]>>
    ELSE IF game_result = Tie THEN <<0>>
    ELSE <<>>

\* a pass of the inner loop of evaluate, with the lessons of the game it ends
GladiatorTurn(overflow_checks) ==
    /\ game.phase = "training"
    /\ game.trainer = "GladiatorBotTrainer"
    /\ \E played \in {gladiator_ply(bots[game.turn], column_pair, game.turn,
                                    choose(bots[game.turn], column_pair))} :
        IF played.crashed THEN Panicked(played.calls) /\ UNCHANGED arena
        ELSE \E ended \in {evaluate_ended([bots EXCEPT ![game.turn] = played.bot],
                                          broke_with(played, game.turn),
                                          overflow_checks)} :
                /\ Passed(played, ended, ByChoose)
                /\ arena' = [arena EXCEPT
                               !.statistics = tallied(@, ended.result),
                               !.winners = @ \o won_by(ended.result, arena.ids)]
    /\ UNCHANGED <<script, free, last, placed, codecVars, searchVars>>

\* the next game of an evaluation on the board of the game before: what
\* NextGladiatorGame is not
NextGladiatorGame_same_board ==
    /\ game.phase = "trained"
    /\ game.trainer = "GladiatorBotTrainer"
    /\ column_pair' = column_pair
    /\ bots' = (Red :> bots[Yellow]) @@ (Yellow :> bots[Red])
    /\ arena' = [arena EXCEPT
                   !.ids = (Red :> arena.ids[Yellow]) @@ (Yellow :> arena.ids[Red]),
                   !.statistics = [@ EXCEPT !.red_wins = arena.statistics.yellow_wins,
                                            !.yellow_wins = arena.statistics.red_wins]]
    /\ game' = [game EXCEPT !.turn = Red, !.matches = @ + 1, !.result = None,
                            !.moves = <<>>,
                            !.phase = IF game.matches + 1 = arena.iterations
                                      THEN "evaluated" ELSE "training"]
    /\ calls' = <<>>
    /\ UNCHANGED <<script, free, last, placed, codecVars, searchVars>>

\* the end of a pass of the outer loop of evaluate: the agents and their
\* tallies change sides and the game is new
NextGladiatorGame ==
    /\ game.phase = "trained"
    /\ game.trainer = "GladiatorBotTrainer"
    /\ column_pair' = new
    /\ bots' = (Red :> bots[Yellow]) @@ (Yellow :> bots[Red])
    /\ arena' = [arena EXCEPT
                   !.ids = (Red :> arena.ids[Yellow]) @@ (Yellow :> arena.ids[Red]),
                   !.statistics = [@ EXCEPT !.red_wins = arena.statistics.yellow_wins,
                                            !.yellow_wins = arena.statistics.red_wins]]
    /\ game' = [game EXCEPT !.turn = Red, !.matches = @ + 1, !.result = None,
                            !.moves = <<>>,
                            !.phase = IF game.matches + 1 = arena.iterations
                                      THEN "evaluated" ELSE "training"]
    /\ calls' = <<>>
    /\ UNCHANGED <<script, free, last, placed, codecVars, searchVars>>

\* the side of the agent evaluate returns
returned_side(statistics) ==
    IF statistics.red_wins > statistics.yellow_wins THEN Red ELSE Yellow

\* a pairing that never sets the remainder: what paired is not
paired_no_remainder(trainer, agent) ==
    IF trainer.current = <<>>
    THEN [trainer EXCEPT !.current = <<agent>>]
    ELSE [trainer EXCEPT !.fights = Append(@, new_from_bots(trainer.current[1], agent)),
                         !.current = <<>>]

\* the trainer after winners.next() gave an agent: it waits as current for a
\* partner, or is the remainder when no game is left, or is the partner of
\* current in a new fight
paired(trainer, agent) ==
    IF trainer.current = <<>>
    THEN IF trainer.games = <<>> THEN [trainer EXCEPT !.remainder = <<agent>>]
         ELSE [trainer EXCEPT !.current = <<agent>>]
    ELSE [trainer EXCEPT !.fights = Append(@, new_from_bots(trainer.current[1], agent)),
                         !.current = <<>>]

\* evaluate returns and the loop over winners takes the agent; with no game
\* left the loop ends, and with no fight left the remainder is returned
Paired ==
    /\ game.trainer = "GladiatorBotTrainer"
    /\ game.phase = "evaluated"
    /\ \E side \in {returned_side(arena.statistics)} :
          arena' = [paired(arena, Agent(arena.ids[side], bots[side])) EXCEPT
                      !.lost = @ \cup {arena.ids[opposite(side)]},
                      !.returned = arena.ids[side]]
    /\ game' = [game EXCEPT !.phase = IF arena.games # <<>> THEN "pairing"
                                      ELSE IF arena'.fights = <<>> THEN "done"
                                      ELSE "round"]
    /\ calls' = <<>>
    /\ UNCHANGED <<bots, boardVars, codecVars, searchVars>>

InitTrain ==
    /\ BoardIdle
    /\ CodecIdle
    /\ SearchIdle
    /\ calls = <<>>
    /\ \/ InitPair
       \/ InitMinmaxTrainer
       \/ InitArena

NextTrain ==
    \/ \E overflow_checks \in BOOLEAN : PairTurn(overflow_checks)
    \/ NextPairGame
    \/ \E overflow_checks \in BOOLEAN : MinmaxTrainerTurn(overflow_checks)
    \/ NextMinmaxTrainerGame
    \/ StartRound
    \/ Evaluate
    \/ \E overflow_checks \in BOOLEAN : GladiatorTurn(overflow_checks)
    \/ NextGladiatorGame
    \/ Paired

SpecTrain == InitTrain /\ [][NextTrain]_vars

\* a pass of the inner loop of evaluate can be made: GladiatorTurn has a next
\* state, a panic or a pass, whenever a game of the tournament is under way
TurnEnabled == game.trainer = "GladiatorBotTrainer" /\ game.phase = "training"

\* the tournament runs on its own: the_one_bot_to_rule_them_all is one thread
\* of loops and every step of it that can be taken is taken.  The weak
\* fairness of GladiatorTurn is written out, []<>~ENABLED \/ []<><<A>>_vars,
\* with TurnEnabled for ENABLED <<GladiatorTurn>>_vars.
SpecTrainFair ==
    /\ SpecTrain
    /\ WF_vars(StartRound)
    /\ WF_vars(Evaluate)
    /\ WF_vars(NextGladiatorGame)
    /\ WF_vars(Paired)
    /\ \/ []<>~TurnEnabled
       \/ []<><<\E overflow_checks \in BOOLEAN : GladiatorTurn(overflow_checks)>>_vars

-----------------------------------------------------------------------------
(* start_with_iterations of the three trainers that have it.  A run is one  *)
(* call start_with_iterations(iterations): the top of a pass of the for     *)
(* loop works out the condition of the progress report and starts a game;   *)
(* the passes of the game are those of PairTurn and MinmaxTrainerTurn; the  *)
(* end of a pass of the for loop, the swap of the agents or of the chip of  *)
(* the learner, is taken with the step that follows the game.  game.why is  *)
(* the message of a panic of the for loop itself.                           *)

\* the greatest iterations given is the number of parts of the progress
\* report of the trainer and MaxBeyond more
MaxBeyond == 1

IterationTrainers == PairTrainers \cup {"MinMaxBotTrainer"}

\* the progress is reported in fifths, by MinMaxBotTrainer in tenths
report_parts(trainer) == IF trainer = "MinMaxBotTrainer" THEN 10 ELSE 5

\* iteration % (iterations / parts) == 0: <<>> for the panic of a remainder
\* with a divisor of zero
report_due(iteration, iterations, parts) ==
    IF iterations \div parts = 0 THEN <<>>
    ELSE <<iteration % (iterations \div parts) = 0>>

InitIterations ==
    /\ BoardIdle
    /\ CodecIdle
    /\ SearchIdle
    /\ calls = <<>>
    /\ arena = NoArena
    /\ \E trainer \in IterationTrainers :
       \E iterations \in 0..(report_parts(trainer) + MaxBeyond) :
          /\ bots = (Red :> Bot_new(GLADIATOR_EXPLORATION, Seeds[1]))
                    @@ (Yellow :> IF trainer = "MinMaxBotTrainer" THEN NoBots[Yellow]
                                  ELSE Bot_new(GLADIATOR_EXPLORATION, Seeds[2]))
          /\ game = [FirstGame(trainer) EXCEPT !.phase = "called", !.matches = 0,
                                               !.policy = "middle"]
                    @@ [iterations |-> iterations, why |-> ""]

\* the for loop is at the top of a pass
AtLoopTop == game.phase \in {"called", "trained"}

\* the agents and the chip of the learner after the end of the pass of a game
LoopEnd ==
    /\ bots' = IF game.phase = "trained" THEN (Red :> bots[Yellow]) @@ (Yellow :> bots[Red])
               ELSE bots
    /\ calls' = <<>>
    /\ UNCHANGED <<script, free, last, placed, codecVars, searchVars, arena>>

LearnerChip ==
    IF game.phase = "trained" /\ game.trainer = "MinMaxBotTrainer"
    THEN opposite(game.bot_turn) ELSE game.bot_turn

\* a pass of the for loop up to start_match(Game::new())
StartIteration ==
    /\ AtLoopTop
    /\ game.matches < game.iterations
    /\ report_due(game.matches + 1, game.iterations, report_parts(game.trainer)) # <<>>
    /\ column_pair' = new
    /\ game' = [game EXCEPT !.turn = Red, !.phase = "training", !.matches = @ + 1,
                            !.result = None, !.moves = <<>>, !.bot_turn = LearnerChip]
    /\ LoopEnd

\* a pass of the for loop that panics in the condition of the report
IterationPanics ==
    /\ AtLoopTop
    /\ game.matches < game.iterations
    /\ report_due(game.matches + 1, game.iterations, report_parts(game.trainer)) = <<>>
    /\ game' = [game EXCEPT !.phase = "crashed", !.bot_turn = LearnerChip,
                            !.why = "attempt to calculate the remainder with a divisor of zero"]
    /\ UNCHANGED column_pair
    /\ LoopEnd

\* the range 1..=iterations is at its end
IterationsDone ==
    /\ AtLoopTop
    /\ game.matches >= game.iterations
    /\ game' = [game EXCEPT !.phase = "returned", !.bot_turn = LearnerChip]
    /\ UNCHANGED column_pair
    /\ LoopEnd

NextIterations ==
    \/ StartIteration
    \/ IterationPanics
    \/ IterationsDone
    \/ \E overflow_checks \in BOOLEAN : PairTurn(overflow_checks)
    \/ \E overflow_checks \in BOOLEAN : MinmaxTrainerTurn(overflow_checks)

SpecIterations == InitIterations /\ [][NextIterations]_vars

-----------------------------------------------------------------------------
(* The board of main.rs, the console game.  Its Board is the array          *)
(* columns[column][row] of Option<Chip>, a function of the column that      *)
(* gives a function of the row.                                             *)

main_new == [column \in 0..(COLUMN_LEN - 1) |-> [row \in 0..(ROW_LEN - 1) |-> None]]

\* the first row of the column that is None, if there is one, takes the chip
main_place_chip(columns, column, chip) ==
    IF column >= COLUMN_LEN
    THEN [columns |-> columns, result |-> Err("InvalidColumn")]
    ELSE LET empty == {row \in 0..(ROW_LEN - 1) : columns[column][row] = None}
         IN  IF empty = {}
             THEN [columns |-> columns, result |-> Err("SpaceOccupied")]
             ELSE LET row_idx == CHOOSE row \in empty : \A other \in empty : row <= other
                  IN  [columns |-> [columns EXCEPT ![column][row_idx] = chip],
                       result |-> Ok(row_idx)]

main_directions ==
    {<<-1, -1>>, <<0, -1>>, <<1, -1>>, <<-1, 0>>, <<1, 0>>, <<-1, 1>>, <<0, 1>>, <<1, 1>>}

\* the three cells next to (column, row) in a direction hold its chip
main_winner(columns, column, row) ==
    IF column >= COLUMN_LEN \/ row >= ROW_LEN THEN None
    ELSE IF columns[column][row] = None THEN None
    ELSE IF \E dir \in main_directions : \A ext \in 1..3 :
                /\ column + dir[1] * ext \in 0..(COLUMN_LEN - 1)
                /\ row + dir[2] * ext \in 0..(ROW_LEN - 1)
                /\ columns[column + dir[1] * ext][row + dir[2] * ext] = columns[column][row]
         THEN columns[column][row]
         ELSE None

\* how a pass of the loop of Game::start ends after a chip is placed: moves
\* is the count after the pass, won is winner(column, placed_row)
main_start_pass(moves, won) ==
    IF moves > 6 /\ won # None THEN "won"
    ELSE IF moves = ROW_LEN * COLUMN_LEN THEN "tie"
    ELSE "next"

-----------------------------------------------------------------------------
(* The board as a grid, for stating the properties.  Grid(b) reads every   *)
(* cell of b once with chip_at.                                            *)

Cells == (0..(COLUMN_LEN - 1)) \X (0..(ROW_LEN - 1))

\* every run of 4 cells in a line that lies on the board
Lines ==
    LET run(c, r, dc, dr) == {<<c + k * dc, r + k * dr>> : k \in 0..3}
        all == {run(p[1][1], p[1][2], p[2][1], p[2][2]) :
                    p \in Cells \X {<<1, 0>>, <<0, 1>>, <<1, 1>>, <<1, -1>>}}
    IN  {L \in all : L \subseteq Cells}

Diagonals == {L \in Lines : \A x \in L, y \in L : x # y => (x[1] # y[1] /\ x[2] # y[2])}

\* the pairs (line, cell of the line)
LineCells == {p \in Lines \X Cells : p[2] \in p[1]}

Grid(b) == [cell \in Cells |-> chip_at(b, cell[1], cell[2])] @@ <<>>

Height(g, column) == Cardinality({r \in 0..(ROW_LEN - 1) : g[<<column, r>>] # None})

Occupied(g) == {cell \in Cells : g[cell] # None}

Called == last.result.tag # "NoCall"
LastOk == last.result.tag = "Ok"
LastErr == last.result.tag = "Err"

-----------------------------------------------------------------------------
\* C1: over every sequence of place_chip calls from Board::new(), no column
\* ever receives more than 6 chips (successful placements and occupied cells
\* of a column agree and are at most 6), and a place_chip on a column that
\* already holds 6 chips returns Err(ColumnOccupied).
C1_ColumnAtMostSix ==
    LET g == Grid(column_pair)
    IN  /\ \A c \in 0..(COLUMN_LEN - 1) :
              /\ placed[c] <= ROW_LEN
              /\ Height(g, c) = placed[c]
        /\ (/\ Called
            /\ last.column < COLUMN_LEN
            /\ Height(Grid(last.before), last.column) = ROW_LEN)
              => last.result = Err("ColumnOccupied")

\* a place_chip on a column holding 6 chips has just been refused
C1_Witness ==
    /\ last.column < COLUMN_LEN
    /\ placed[last.column] = ROW_LEN
    /\ Height(Grid(last.before), last.column) = ROW_LEN
    /\ last.result = Err("ColumnOccupied")

\* the result of winner(c, r) stated over the grid: the chip at (c, r) when
\* some run of 4 cells on the board contains (c, r) and holds only that chip
WinnerOnGrid(g, c, r) ==
    IF <<c, r>> \notin Cells THEN None
    ELSE IF g[<<c, r>>] = None THEN None
    ELSE IF \E L \in Lines : /\ <<c, r>> \in L
                             /\ \A x \in L : g[x] = g[<<c, r>>]
         THEN g[<<c, r>>]
         ELSE None

\* C2: winner(c, r) is Some(chip at (c, r)) iff a horizontal, vertical or
\* diagonal run of 4 cells on the board that contains (c, r) is filled with
\* that chip, wherever (c, r) lies in the run; it is None when (c, r) is
\* empty or out of range.
C2_WinnerIffRun ==
    LET g == Grid(column_pair)
    IN  \A c \in 0..COLUMN_LEN, r \in 0..ROW_LEN :
            winner(column_pair, c, r) = WinnerOnGrid(g, c, r)

\* a diagonal run of four is on the board and winner reports it from a cell
\* in the middle of the run
C2_Witness ==
    LET g == Grid(column_pair)
    IN  \E L \in Diagonals : \E x \in L :
            /\ \E y \in L : y[1] < x[1]
            /\ \E y \in L : y[1] > x[1]
            /\ g[x] \in Chip
            /\ \A y \in L : g[y] = g[x]
            /\ winner(column_pair, x[1], x[2]) = g[x]

\* C3: a failed place_chip leaves the board as it was; column >= 7 fails with
\* InvalidColumn and a full column with ColumnOccupied, also when the failing
\* call is repeated.
C3_FailedPlaceKeepsBoard ==
    LET full == Height(Grid(last.before), last.column) >= ROW_LEN
    IN  /\ LastErr => column_pair = last.before
        /\ (Called /\ last.column >= COLUMN_LEN) => last.result = Err("InvalidColumn")
        /\ (Called /\ last.column < COLUMN_LEN /\ full)
              => last.result = Err("ColumnOccupied")
        /\ LastErr => (last.column >= COLUMN_LEN \/ full)

\* a place_chip on a full column has failed right after another failed call,
\* and the board still holds its chips
C3_Witness ==
    /\ last.result = Err("ColumnOccupied")
    /\ placed[last.column] = ROW_LEN
    /\ last.streak >= 2
    /\ column_pair = last.before
    /\ column_pair # new

\* C4: a successful place_chip(column, chip) returns the number of chips the
\* column held before the call, makes the cell (column, row) hold chip and
\* changes no other cell; no call, successful or not, changes an occupied
\* cell.
C4_PlaceFrame ==
    LET g == Grid(column_pair)
        before == Grid(last.before)
    IN  /\ LastOk =>
              /\ last.result.row = Height(before, last.column)
              /\ g[<<last.column, last.result.row>>] = last.chip
              /\ \A cell \in Cells \ {<<last.column, last.result.row>>} :
                    g[cell] = before[cell]
        /\ \A cell \in Occupied(before) : g[cell] = before[cell]

\* a chip has been placed on top of another one
C4_Witness ==
    /\ LastOk
    /\ last.result.row > 0
    /\ chip_at(column_pair, last.column, last.result.row) = last.chip
    /\ chip_at(last.before, last.column, last.result.row) = None
    /\ chip_at(column_pair, last.column, last.result.row - 1) \in Chip

\* C5: swap applied twice to a board gives the board back.  Checked on the
\* live board and on the boards set_chip_at makes of it at the top of the
\* column last played, where a chip may float above empty cells as in the
\* test swap.
C5_SwapInvolution ==
    /\ swap(swap(column_pair)) = column_pair
    /\ LET b == set_chip_at(column_pair, last.column % COLUMN_LEN, ROW_LEN - 1,
                            opposite(last.chip))
       IN  swap(swap(b)) = b

\* a board that differs from its mirror image has been mirrored twice
C5_Witness ==
    /\ swap(column_pair) # column_pair
    /\ swap(swap(column_pair)) = column_pair

\* C6: the cell (c, r) of swap(b) holds what the cell (6 - c, r) of b holds,
\* for every column c in 0..6 and row r in 0..5.
C6_SwapReversesColumns ==
    LET g == Grid(column_pair)
        swapped == swap(column_pair)
    IN  \A cell \in Cells :
            chip_at(swapped, cell[1], cell[2]) = g[<<COLUMN_LEN - 1 - cell[1], cell[2]>>]

\* the mirror image moved chips of both colours to other columns
C6_Witness ==
    LET g == Grid(column_pair)
        m == Grid(swap(column_pair))
    IN  \E x \in Cells, y \in Cells :
            /\ g[x] = Red /\ m[x] # Red
            /\ g[y] = Yellow /\ m[y] # Yellow
            /\ m[<<COLUMN_LEN - 1 - x[1], x[2]>>] = Red
            /\ m[<<COLUMN_LEN - 1 - y[1], y[2]>>] = Yellow

\* C7: filled() is true iff all 42 cells are occupied; column c is available
\* iff it holds fewer than 6 chips, which is when place_chip(c, _) succeeds;
\* and no column is available iff filled() is true.
C7_FilledAndAvailable ==
    LET g == Grid(column_pair)
        available == available_column_choices(column_pair) @@ <<>>
    IN  /\ filled(column_pair) <=> Occupied(g) = Cells
        /\ \A c \in 0..(COLUMN_LEN - 1) : available[c] <=> Height(g, c) < ROW_LEN
        /\ (Called /\ last.column < COLUMN_LEN) =>
              (LastOk <=> available_column_choices(last.before)[last.column])
        /\ (\A c \in 0..(COLUMN_LEN - 1) : ~available[c]) <=> filled(column_pair)

\* the last empty cell has been filled: the board is filled and no column
\* is available
C7_Witness ==
    /\ LastOk
    /\ filled(column_pair)
    /\ Occupied(Grid(column_pair)) = Cells
    /\ \A c \in 0..(COLUMN_LEN - 1) : ~available_column_choices(column_pair)[c]

\* the number of pairs (line, cell of the line) in which the cell holds chip
\* and the line holds no chip of the other colour
OpenCount(g, chip) ==
    Cardinality({p \in LineCells :
                    /\ g[p[2]] = chip
                    /\ \A x \in p[1] : g[x] # opposite(chip)})

\* C8: value_of_board(p) is the sum, over the occupied cells and the runs of
\* 4 cells on the board through the cell that hold no chip of the other
\* colour, of +1 for a cell of p and -1 for a cell of the opponent; one Red
\* chip at (0, 0) on an otherwise empty board gives value_of_board(Red) = 3.
C8_ValueOfBoard ==
    LET g == Grid(column_pair)
    IN  /\ \A p \in Chip :
              value_of_board(column_pair, p) = OpenCount(g, p) - OpenCount(g, opposite(p))
        /\ (LastOk /\ last.before = new /\ last.column = 0 /\ last.chip = Red)
              => value_of_board(column_pair, Red) = 3

\* chips of both colours are on the board, a line through one of them is
\* blocked by the other colour, and the value is not zero
C8_Witness ==
    LET g == Grid(column_pair)
    IN  /\ \E p \in LineCells :
              /\ g[p[2]] \in Chip
              /\ \E x \in p[1] : g[x] = opposite(g[p[2]])
        /\ value_of_board(column_pair, Red) # 0
        /\ value_of_board(column_pair, Red) = OpenCount(g, Red) - OpenCount(g, Yellow)


\* The bytes of array a from index lo, n of them
Slice(a, lo, n) == [i \in 0..(n - 1) |-> a[lo + i]]

\* C9: deserialize_weights(serialize_weights(b, w)) = (b, w) for any
\* (u64, u32) pair b and any seven i16 values w.
C9_RoundTrip ==
    pc = "deserialized" =>
        /\ codec_out.board = codec_in.board
        /\ codec_out.weights = codec_in.weights

\* the round trip was made on a pair no game reaches (bits above the 84 board
\* bits set) with a negative weight in it
C9_Witness ==
    /\ pc = "deserialized"
    /\ codec_out = codec_in
    /\ codec_in.board[1][63] = 1
    /\ \E i \in 0..(COLUMN_LEN - 1) : codec_in.weights[i] < 0

\* C10: the record serialize_weights produces is exactly 26 bytes: the u64
\* half little-endian (8), the u32 half little-endian (4), then the seven
\* i16 weights little-endian in column order (14), and nothing else.
C10_RecordIs26Bytes ==
    pc # "start" =>
        /\ DOMAIN codec_bytes = 0..25
        /\ Slice(codec_bytes, 0, 8) = to_le_bytes(codec_in.board[1], 8)
        /\ Slice(codec_bytes, 8, 4) = to_le_bytes(codec_in.board[2], 4)
        /\ \A k \in 0..(COLUMN_LEN - 1) :
              Slice(codec_bytes, 12 + 2 * k, 2) = i16_to_le_bytes(codec_in.weights[k])

\* What the code does produce: size_of::<Board>() + 14 bytes, the 26 bytes of
\* C10 first and zero bytes after them.
C10_RecordLayout ==
    pc # "start" =>
        /\ DOMAIN codec_bytes = 0..(build + size_of_Weight - 1)
        /\ Slice(codec_bytes, 0, 8) = to_le_bytes(codec_in.board[1], 8)
        /\ Slice(codec_bytes, 8, 4) = to_le_bytes(codec_in.board[2], 4)
        /\ \A k \in 0..(COLUMN_LEN - 1) :
              Slice(codec_bytes, 12 + 2 * k, 2) = i16_to_le_bytes(codec_in.weights[k])
        /\ \A i \in 26..(build + size_of_Weight - 1) : codec_bytes[i] = 0

\* a record of 30 bytes was produced
C10_Padded ==
    /\ pc = "serialized"
    /\ build = 16
    /\ DOMAIN codec_bytes = 0..29
    /\ codec_in.board = AllOnes


-----------------------------------------------------------------------------
(* The search, stated on the grid of the board it was run on.              *)

Searched == found.result.tag # "NoCall"

\* the grid after a chip is dropped into a column that is not full
Dropped(g, column, chip) == [g EXCEPT ![<<column, Height(g, column)>>] = chip]

ChildColumns == {found.results[k][1] : k \in 1..Len(found.results)}

\* the score of the child of a column
ChildScore(column) ==
    LET k == CHOOSE k \in 1..Len(found.results) : found.results[k][1] = column
    IN  found.results[k][2].score

\* the best score for the mover: the greatest for the maximizer, else the least
BestScore ==
    IF found.turn = found.maximizer
    THEN CHOOSE v \in {ChildScore(c) : c \in ChildColumns} :
            \A c \in ChildColumns : ChildScore(c) <= v
    ELSE CHOOSE v \in {ChildScore(c) : c \in ChildColumns} :
            \A c \in ChildColumns : ChildScore(c) >= v

BestColumns == {c \in ChildColumns : ChildScore(c) = BestScore}

\* C11: of several legal columns with the same best child score minmax
\* returns the lowest-numbered one, for the maximizer and for the minimizer.
C11_TieLowestColumn ==
    (Searched /\ found.depth = DEPTH /\ found.result.tag = "Position") =>
        /\ found.result.score = BestScore
        /\ found.result.column \in BestColumns
        /\ \A c \in BestColumns : found.result.column <= c

\* What the code does: the minimizer gets the lowest-numbered of the best
\* columns, the maximizer the highest-numbered.
C11_TieAsCoded ==
    (Searched /\ found.result.tag = "Position") =>
        /\ found.result.score = BestScore
        /\ found.result.column \in BestColumns
        /\ \A c \in BestColumns :
              IF found.turn = found.maximizer
              THEN found.result.column >= c
              ELSE found.result.column <= c

\* minmax returned, for the maximizer, the highest of several columns with
\* the greatest score
C11_Witness ==
    /\ Searched /\ found.depth = DEPTH /\ found.result.tag = "Position"
    /\ found.turn = found.maximizer
    /\ Cardinality(BestColumns) >= 2
    /\ \E c \in BestColumns : c < found.result.column


\* the chip that completes four in a row by dropping into the column, or None
WinsBy(g, column, chip) ==
    WinnerOnGrid(Dropped(g, column, chip), column, Height(g, column))

\* the drop into the column takes the last empty cell
FillsBy(g, column) == Cardinality(Occupied(g)) = COLUMN_LEN * ROW_LEN - 1

\* value_of_board on the grid: open runs of the chip less those of the other
GridValue(g, chip) == OpenCount(g, chip) - OpenCount(g, opposite(chip))

\* Red can complete four in a row in this column, and no other move ends the
\* game within the horizon: no other child is scored as decided, and with
\* another move to make the board cannot fill within DEPTH + 1 placements
WinningColumn(g, column) ==
    /\ column \in ChildColumns
    /\ WinsBy(g, column, Red) = Red
    /\ \A c \in ChildColumns \ {column} :
          /\ ChildScore(c) \notin {1000, -1000}
          /\ COLUMN_LEN * ROW_LEN - Cardinality(Occupied(g)) > DEPTH + 1

\* C12: where Red has three connected chips with an open, playable fourth
\* cell and no other move ends the game within the horizon, minmax(Red, Red)
\* returns Position(that column, 1000).
C12_WinningMove ==
    (Searched /\ found.depth = DEPTH /\ found.maximizer = Red /\ found.turn = Red) =>
        LET g == Grid(found.board)
        IN  \A column \in 0..(COLUMN_LEN - 1) :
                WinningColumn(g, column) => found.result = Position(column, 1000)

\* What the code does: the same, unless the winning chip takes the last
\* empty cell; that move is scored 0.
C12_WinningMoveUnlessLastCell ==
    (Searched /\ found.depth = DEPTH /\ found.maximizer = Red /\ found.turn = Red) =>
        LET g == Grid(found.board)
        IN  \A column \in 0..(COLUMN_LEN - 1) :
                WinningColumn(g, column) =>
                    found.result = Position(column, IF FillsBy(g, column) THEN 0 ELSE 1000)

\* minmax(Red, Red) was called where Red's winning chip takes the last cell
C12_Witness ==
    /\ Searched /\ found.depth = DEPTH /\ found.maximizer = Red /\ found.turn = Red
    /\ \E column \in 0..(COLUMN_LEN - 1) :
          /\ WinningColumn(Grid(found.board), column)
          /\ FillsBy(Grid(found.board), column)
          /\ found.result = Position(column, 0)

\* the winning move was found on a board that cannot fill within the horizon
C12_WitnessOpenBoard ==
    /\ Searched /\ found.depth = DEPTH /\ found.maximizer = Red /\ found.turn = Red
    /\ \E column \in 0..(COLUMN_LEN - 1) :
          /\ WinningColumn(Grid(found.board), column)
          /\ Cardinality(ChildColumns) >= 2
          /\ found.result = Position(column, 1000)

\* C13: each child of a search node is scored on the board after the
\* placement: 0 if that board is filled; otherwise +1000 or -1000 if the
\* placed cell completes four in a row (+ for the maximizer's chip);
\* otherwise 8 * value_of_board(maximizer) if the remaining depth is 0;
\* otherwise what the search of the opposite turn at depth - 1 returns.
\* The children are the available columns in ascending order.
C13_TerminalTests ==
    Searched =>
        LET g == Grid(found.board)
            n == Len(found.results)
        IN  /\ ChildColumns = {c \in 0..(COLUMN_LEN - 1) : Height(g, c) < ROW_LEN}
            /\ \A k \in 1..n : \A j \in 1..n :
                  k < j => found.results[k][1] < found.results[j][1]
            /\ \A k \in 1..n :
                  LET column == found.results[k][1]
                      child == found.results[k][2]
                      after == Dropped(g, column, found.turn)
                  IN  IF FillsBy(g, column) THEN child = Result(0)
                      ELSE IF WinsBy(g, column, found.turn) # None
                      THEN child = Result(IF found.turn = found.maximizer
                                          THEN 1000 ELSE -1000)
                      ELSE IF found.depth = 0
                      THEN child = Result(8 * GridValue(after, found.maximizer))
                      ELSE child = minmax_children(
                                      place_chip(found.board, column, found.turn).board,
                                      found.maximizer, opposite(found.turn),
                                      found.depth - 1)

\* a search below the root depth had a child that won, and one that went on
C13_Witness ==
    /\ Searched /\ found.depth >= 1
    /\ \E c \in ChildColumns :
          /\ WinsBy(Grid(found.board), c, found.turn) = found.turn
          /\ ~FillsBy(Grid(found.board), c)
          /\ ChildScore(c) \in {1000, -1000}
    /\ \E c \in ChildColumns :
          /\ WinsBy(Grid(found.board), c, found.turn) = None
          /\ ~FillsBy(Grid(found.board), c)

\* the children scored by value_of_board: depth 0, board not filled, no four
\* in a row at the placed cell
Leaves ==
    {c \in ChildColumns :
        /\ found.depth = 0
        /\ ~FillsBy(Grid(found.board), c)
        /\ WinsBy(Grid(found.board), c, found.turn) = None}

-----------------------------------------------------------------------------
(* The calls on boards where the game is over.                              *)

\* some player has four in a row on the grid
HasFour(g) == \E L \in Lines : \E chip \in Chip : \A x \in L : g[x] = chip

GridFilled(g) == Occupied(g) = Cells

\* the calls of choose of the run
Chosen == {k \in 1..Len(calls) : calls[k].op = "choose"}

\* C15: minmax or choose called on a filled board, or on a board where a
\* player already has four in a row, never returns a column but ends in a
\* panic; on every board that is neither filled nor won both return a column.
C15_TerminalIsFatal ==
    /\ (Searched /\ found.depth = DEPTH) =>
          IF GridFilled(Grid(found.board)) \/ HasFour(Grid(found.board))
          THEN found.result.tag = "Aborted"
          ELSE found.result.tag = "Position"
    /\ \A k \in Chosen :
          IF GridFilled(Grid(calls[k].board)) \/ HasFour(Grid(calls[k].board))
          THEN calls[k].tag = "Crashed"
          ELSE calls[k].tag = "Returned"

\* as coded: the panic comes on a filled board and on no other, and what is
\* returned otherwise is a column that is available
C15_FilledIsFatal ==
    /\ (Searched /\ found.depth = DEPTH) =>
          IF GridFilled(Grid(found.board))
          THEN found.result = Aborted("game is not over")
          ELSE /\ found.result.tag = "Position"
               /\ available_column_choices(found.board)[found.result.column]
    /\ \A k \in Chosen :
          IF GridFilled(Grid(calls[k].board))
          THEN calls[k].tag = "Crashed" /\ calls[k].why = "game is not tied"
          ELSE /\ calls[k].tag = "Returned"
               /\ available_column_choices(calls[k].board)[calls[k].column]

\* choose has returned a column on a board where a player has four in a row
C15_Witness ==
    \E k \in Chosen :
        /\ HasFour(Grid(calls[k].board))
        /\ ~GridFilled(Grid(calls[k].board))
        /\ calls[k].tag = "Returned"
        /\ calls[k].column \in 0..(COLUMN_LEN - 1)

\* minmax has returned a column on a board where a player has four in a row
C15_WitnessMinmax ==
    /\ Searched
    /\ found.depth = DEPTH
    /\ found.result = minmax(found.board, found.maximizer, found.turn)
    /\ HasFour(Grid(found.board))
    /\ ~GridFilled(Grid(found.board))
    /\ found.result.tag = "Position"

\* minmax or choose has ended in a panic on a filled board
C15_WitnessFilled ==
    \/ /\ Searched
       /\ found.depth = DEPTH
       /\ GridFilled(Grid(found.board))
       /\ found.result = Aborted("game is not over")
    \/ \E k \in Chosen :
          /\ GridFilled(Grid(calls[k].board))
          /\ calls[k].tag = "Crashed"

-----------------------------------------------------------------------------
(* The memory of an agent, stated on the calls of the last step: each call  *)
(* holds the agent before and after it.                                     *)

\* the left-right mirror image of a board
Mirror(board) == Settled(swap(board))

Keys(bot) == {bot.memory[k].key : k \in 1..Len(bot.memory)}

\* no two entries of the memory hold the same board or a board and its
\* distinct mirror
MirrorFree(keys, entries) ==
    /\ Cardinality(keys) = entries
    /\ \A key \in keys : \A mirror \in {Mirror(key)} :
          mirror \in keys => mirror = key

OneOrientation(bot) == MirrorFree(Keys(bot), Len(bot.memory))

\* the boards a call passes to the memory, in the order it passes them
PassedBoards(call) ==
    IF call.op = "choose" THEN <<call.board>>
    ELSE [i \in 1..call.before.played_choices_len |->
              call.before.played_choices[i - 1].board]

\* the first board of the sequence that is the board or its mirror is the board
FirstPassedAs(boards, board) ==
    \E i \in 1..Len(boards) :
        /\ boards[i] = board
        /\ \A j \in 1..(i - 1) : boards[j] # Mirror(board)

\* a board among the boards passed that was no key before, nor was its
\* mirror, and was passed before its mirror
NewKey(key, boards, keys) ==
    /\ FirstPassedAs(boards, key)
    /\ key \notin keys
    /\ Mirror(key) \notin keys

\* the memory after the call is the memory before it with new entries behind
\* it, each a board the call passed, in the orientation passed first
KeysKept(call) ==
    /\ Len(call.before.memory) <= Len(call.after.memory)
    /\ \A k \in 1..Len(call.before.memory) :
          call.after.memory[k].key = call.before.memory[k].key
    /\ \A k \in (Len(call.before.memory) + 1)..Len(call.after.memory) :
          NewKey(call.after.memory[k].key, PassedBoards(call), Keys(call.before))

Stored(board, keys) == board \in keys \/ Mirror(board) \in keys

\* every board a call that returned passed is a key, or its mirror is
AllStored(call) ==
    call.tag = "Returned" =>
        \A board \in {PassedBoards(call)[i] : i \in 1..Len(PassedBoards(call))} :
            Stored(board, Keys(call.after))

\* A memory changes in a call and nowhere else: in a state reached by calls
\* the memories are those the calls left or those of the state before.
\* C16: after any sequence of choose and learning calls the memory of an
\* agent never holds both a board and its distinct mirror image as keys; the
\* orientation stored for a mirror pair is the one passed to the agent first,
\* and a stored key is never removed nor replaced by its mirror.
C16_OneOrientationStored ==
    /\ calls = <<>> => \A chip \in Chip : OneOrientation(bots[chip])
    /\ \A k \in 1..Len(calls) :
          /\ OneOrientation(calls[k].after)
          /\ KeysKept(calls[k])
          /\ AllStored(calls[k])

\* choose has been passed the distinct mirror of a stored board and has left
\* the keys as they were
C16_Witness ==
    \E k \in 1..Len(calls) :
        /\ calls[k].op = "choose"
        /\ calls[k].tag = "Returned"
        /\ calls[k].board # Mirror(calls[k].board)
        /\ calls[k].board \notin Keys(calls[k].before)
        /\ Mirror(calls[k].board) \in Keys(calls[k].before)
        /\ Len(calls[k].after.memory) = Len(calls[k].before.memory)

-----------------------------------------------------------------------------
(* The column choose returns, stated on the grid of the board and on the   *)
(* memory choose leaves.                                                    *)

Columns == 0..(COLUMN_LEN - 1)

\* the columns of the grid that are not full
OpenOn(g) == {column \in Columns : Height(g, column) < ROW_LEN}

\* the weights stored under a key
WeightsUnder(bot, key) ==
    (CHOOSE entry \in {bot.memory[k] : k \in 1..Len(bot.memory)} : entry.key = key).weight

\* the weight of a column of the board: stored under the board, or under its
\* mirror and then read in reverse column order
WeightOn(bot, board, column) ==
    IF board \in Keys(bot) THEN WeightsUnder(bot, board)[column]
    ELSE WeightsUnder(bot, Mirror(board))[COLUMN_LEN - 1 - column]

\* the greatest weight among the columns
MaxWeightOn(bot, board, columns) ==
    CHOOSE w \in {WeightOn(bot, board, column) : column \in columns} :
        \A column \in columns : WeightOn(bot, board, column) <= w

\* a - b, no less than i16::MIN
SaturatingSub(a, b) == IF a - b < I16_MIN THEN I16_MIN ELSE a - b

\* choose returned a column of the set that is within the exploration of the
\* greatest weight
WithinExploration(call, open) ==
    /\ call.tag = "Returned"
    /\ call.column \in open
    /\ WeightOn(call.after, call.board, call.column)
          >= SaturatingSub(MaxWeightOn(call.after, call.board, open),
                           call.before.exploration)

\* C17: on every board with at least one available column choose returns a
\* column that is available and whose weight, read in reverse column order
\* when the stored key is the mirror, is at least the greatest weight among
\* the available columns less the exploration, the subtraction saturating at
\* i16::MIN; the admissible set the random number picks from is never empty.
C17_ChoiceWithinExploration ==
    \A k \in Chosen :
        OpenOn(Grid(calls[k].board)) # {} =>
            WithinExploration(calls[k], OpenOn(Grid(calls[k].board)))

\* as coded: so it is for an agent whose exploration is not negative
C17_WithinExplorationIfMargin ==
    \A k \in Chosen :
        (OpenOn(Grid(calls[k].board)) # {} /\ calls[k].before.exploration >= 0) =>
            WithinExploration(calls[k], OpenOn(Grid(calls[k].board)))

\* choose has panicked on a board with an available column
C17_Witness ==
    \E k \in Chosen :
        /\ OpenOn(Grid(calls[k].board)) # {}
        /\ calls[k].before.exploration < 0
        /\ calls[k].tag = "Crashed"
        /\ calls[k].why = "attempt to calculate the remainder with a divisor of zero"

\* choose has returned a column where an available column lies below the
\* threshold
C17_WitnessExcluded ==
    \E k \in Chosen :
        /\ calls[k].tag = "Returned"
        /\ calls[k].column \in OpenOn(Grid(calls[k].board))
        /\ \E column \in OpenOn(Grid(calls[k].board)) :
              WeightOn(calls[k].after, calls[k].board, column)
                 < MaxWeightOn(calls[k].after, calls[k].board,
                               OpenOn(Grid(calls[k].board)))
                   - calls[k].before.exploration

-----------------------------------------------------------------------------
(* The lessons, stated on the agent before and after the call.  A cell is a *)
(* stored key and a column of its weights; the plies of the log are numbered *)
(* from 1 here, ply i of the program being ply i + 1.                       *)

LogLen(call) == call.before.played_choices_len

\* the cell of a logged choice in the memory the call leaves
CellOf(bot, choice) ==
    IF choice.board \in Keys(bot) THEN <<choice.board, choice.column>>
    ELSE <<Mirror(choice.board), COLUMN_LEN - 1 - choice.column>>

\* the cells of the plies of the log, in the order of the log
LogCells(call) ==
    [i \in 1..LogLen(call) |-> CellOf(call.after, call.before.played_choices[i - 1])]
    @@ <<>>

\* the weight of a cell; a board that is no key yet has blank weights
WeightIn(bot, cell) ==
    IF cell[1] \in Keys(bot) THEN WeightsUnder(bot, cell[1])[cell[2]] ELSE 0

Clamp(x) == IF x < I16_MIN THEN I16_MIN ELSE IF x > I16_MAX THEN I16_MAX ELSE x

Taught == {k \in 1..Len(calls) : calls[k].op = "learn_from_played_choices"}

LastPlyExtreme(call, cells) ==
    /\ call.tag = "Returned"
    /\ WeightIn(call.after, cells[LogLen(call)])
          = IF call.action.tag = "Reward" THEN I16_MAX ELSE I16_MIN

\* C18: learn_from_played_choices sets the weight of the column of the last
\* logged ply, on the canonical board of that ply, to i16::MAX for Reward(n)
\* and to i16::MIN for Punish(n), for every n and whatever the weight was.
C18_LastPlyExtreme ==
    \A k \in Taught :
        LogLen(calls[k]) > 0 => LastPlyExtreme(calls[k], LogCells(calls[k]))

\* as coded: so it is of every call that returns
C18_LastPlyExtremeIfReturned ==
    \A k \in Taught :
        (LogLen(calls[k]) > 0 /\ calls[k].tag = "Returned") =>
            LastPlyExtreme(calls[k], LogCells(calls[k]))

\* learn_from_played_choices has panicked on an earlier ply of the log
C18_Witness ==
    \E k \in Taught :
        /\ LogLen(calls[k]) > 0
        /\ calls[k].tag = "Crashed"
        /\ calls[k].why = "attempt to add with overflow"

\* a lesson that returned has changed the weight of the last ply of the log
C18_WitnessReturned ==
    \E k \in Taught :
        /\ LogLen(calls[k]) > 0
        /\ calls[k].tag = "Returned"
        /\ WeightIn(calls[k].before, LogCells(calls[k])[LogLen(calls[k])])
              # WeightIn(calls[k].after, LogCells(calls[k])[LogLen(calls[k])])

\* the weight the claims give a cell after the first n plies of the log:
\* the last ply sets the extreme, an earlier ply i adds or subtracts
\* base + floor(0.02 * i^2) and clamps
RECURSIVE TaughtWeight(_, _, _, _)
TaughtWeight(call, cells, n, cell) ==
    IF n = 0 THEN WeightIn(call.before, cell)
    ELSE IF cells[n] # cell THEN TaughtWeight(call, cells, n - 1, cell)
    ELSE IF n = LogLen(call)
         THEN IF call.action.tag = "Reward" THEN I16_MAX ELSE I16_MIN
    ELSE IF call.action.tag = "Reward"
         THEN Clamp(TaughtWeight(call, cells, n - 1, cell)
                    + (call.action.base + ((n - 1) * (n - 1)) \div 50))
         ELSE Clamp(TaughtWeight(call, cells, n - 1, cell)
                    - (call.action.base + ((n - 1) * (n - 1)) \div 50))

EarlierPliesClamped(call, cells) ==
    /\ call.tag = "Returned"
    /\ \A i \in 1..(LogLen(call) - 1) :
          WeightIn(call.after, cells[i]) = TaughtWeight(call, cells, LogLen(call), cells[i])

\* C19: for every logged ply i before the last learn_from_played_choices
\* adds, for Reward(n), and subtracts, for Punish(n), n + floor(0.02 * i^2)
\* to the weight of the ply, the result clamped to i16::MIN..i16::MAX; for
\* every n of the action type and every weight the update neither panics nor
\* wraps.
C19_EarlierPliesClamped ==
    \A k \in Taught :
        \A cells \in {LogCells(calls[k])} : EarlierPliesClamped(calls[k], cells)

\* the greatest floor(0.02 * i^2) of a log: that of ply 19
MaxSeverity == ((PLAYED_CHOICES_LEN - 2) * (PLAYED_CHOICES_LEN - 2)) \div 50

\* as coded: so it is for a base that, with the severity, is an i16
C19_ClampedIfBaseFits ==
    \A k \in Taught :
        calls[k].action.base + MaxSeverity <= I16_MAX =>
            \A cells \in {LogCells(calls[k])} : EarlierPliesClamped(calls[k], cells)

\* Reward(40000) has returned and has lowered the weight of an earlier ply
C19_Witness ==
    \E k \in Taught :
        /\ calls[k].tag = "Returned"
        /\ calls[k].action = Reward(40000)
        /\ \E i \in 1..(LogLen(calls[k]) - 1) :
              WeightIn(calls[k].after, LogCells(calls[k])[i])
                 < WeightIn(calls[k].before, LogCells(calls[k])[i])

\* a lesson of the trainer has been clamped on an earlier ply: the sum lies
\* outside i16 and the weight is the extreme
C19_WitnessClamped ==
    \E k \in Taught :
        /\ calls[k].tag = "Returned"
        /\ calls[k].action.base = 10
        /\ \E i \in 1..(LogLen(calls[k]) - 1) :
              /\ \A j \in 1..LogLen(calls[k]) :
                    j # i => LogCells(calls[k])[j] # LogCells(calls[k])[i]
              /\ WeightIn(calls[k].after, LogCells(calls[k])[i]) \in {I16_MIN, I16_MAX}
              /\ WeightIn(calls[k].before, LogCells(calls[k])[i])
                    # WeightIn(calls[k].after, LogCells(calls[k])[i])
              /\ \/ WeightIn(calls[k].before, LogCells(calls[k])[i]) + 10 > I16_MAX
                 \/ WeightIn(calls[k].before, LogCells(calls[k])[i]) - 10
                       - MaxSeverity < I16_MIN


Shown == {k \in 1..Len(calls) : calls[k].op = "learn_from_board"}

\* the game result is a win for the chip
WonBy(result, chip) ==
    \/ result = RedWon /\ chip = Red
    \/ result = YellowWon /\ chip = Yellow

\* the weight the claim gives a cell after the first n plies of the log: the
\* last ply sets the extreme of the result or, on a tie, nothing, an earlier
\* ply adds the value of its logged board for the chip and clamps
RECURSIVE ShownWeight(_, _, _, _)
ShownWeight(call, cells, n, cell) ==
    IF n = 0 THEN WeightIn(call.before, cell)
    ELSE IF cells[n] # cell THEN ShownWeight(call, cells, n - 1, cell)
    ELSE IF n = LogLen(call)
         THEN IF call.result = Tie THEN ShownWeight(call, cells, n - 1, cell)
              ELSE IF WonBy(call.result, call.chip) THEN I16_MAX ELSE I16_MIN
    ELSE Clamp(ShownWeight(call, cells, n - 1, cell)
               + GridValue(Grid(call.before.played_choices[n - 1].board), call.chip))

PliesShown(call, cells) ==
    /\ call.tag = "Returned"
    /\ \A i \in 1..LogLen(call) :
          WeightIn(call.after, cells[i]) = ShownWeight(call, cells, LogLen(call), cells[i])

\* C20: learn_from_board(agentChip, result) makes the weight of the last
\* logged ply i16::MAX if the result is a win for agentChip, i16::MIN if it
\* is a loss, and leaves it on a tie; the weight of every earlier ply becomes
\* its weight plus value_of_board(agentChip) of the logged board of the ply,
\* clamped to i16::MIN..i16::MAX, saturating in the direction of the overflow.
C20_BoardLesson ==
    \A k \in Shown :
        \A cells \in {LogCells(calls[k])} : PliesShown(calls[k], cells)

\* the cell of ply i of the log is the cell of no other ply
OwnCell(cells, i) == \A j \in 1..Len(cells) : j # i => cells[j] # cells[i]

\* what the claim adds up for ply i: the weight before the call and the value
\* of the logged board for the chip
PlySum(call, cells, i) ==
    WeightIn(call.before, cells[i])
    + GridValue(Grid(call.before.played_choices[i - 1].board), call.chip)

\* in a match that was won the sum of an earlier ply has gone above i16::MAX
\* and the weight is i16::MAX
C20_Witness ==
    \E k \in Shown : \E cells \in {LogCells(calls[k])} :
        \E i \in 1..(LogLen(calls[k]) - 1) :
            /\ calls[k].result # Tie
            /\ OwnCell(cells, i)
            /\ WeightIn(calls[k].after, cells[i]) = I16_MAX
            /\ PlySum(calls[k], cells, i) > I16_MAX

\* the sum of an earlier ply has gone below i16::MIN and the weight is
\* i16::MIN
C20_WitnessBelow ==
    \E k \in Shown : \E cells \in {LogCells(calls[k])} :
        \E i \in 1..(LogLen(calls[k]) - 1) :
            /\ OwnCell(cells, i)
            /\ WeightIn(calls[k].after, cells[i]) = I16_MIN
            /\ PlySum(calls[k], cells, i) < I16_MIN

\* a match on a filled board has left the weight of the last ply of a full
\* log as it was
C20_WitnessTie ==
    \E k \in Shown : \E cells \in {LogCells(calls[k])} :
        /\ calls[k].result = Tie
        /\ calls[k].tag = "Returned"
        /\ LogLen(calls[k]) = PLAYED_CHOICES_LEN
        /\ WeightIn(calls[k].after, cells[LogLen(calls[k])])
              = WeightIn(calls[k].before, cells[LogLen(calls[k])])


(* ------------------------------------------------------------------ *)
(* The log of an agent under the learning calls and under             *)
(* clear_played_choices, over the calls of the trainers.              *)
(* ------------------------------------------------------------------ *)

LearnOps == {"learn_from_played_choices", "learn_from_board"}

\* the log of an agent: the array and the length
Log(bot) == <<bot.played_choices, bot.played_choices_len>>

\* C21: a learning call leaves the log of the agent as it was; only
\* clear_played_choices brings the length of the log back to 0, and it
\* leaves the memory as it was; a learning call on an empty log returns
\* and changes nothing.
C21_LogFrame ==
    \A k \in 1..Len(calls) :
        /\ calls[k].op \in LearnOps => Log(calls[k].after) = Log(calls[k].before)
        /\ calls[k].op = "clear_played_choices"
             => /\ calls[k].tag = "Returned"
                /\ calls[k].after.played_choices_len = 0
                /\ calls[k].after.memory = calls[k].before.memory
        /\ calls[k].op # "clear_played_choices"
             => calls[k].after.played_choices_len >= calls[k].before.played_choices_len
        /\ (calls[k].op \in LearnOps /\ calls[k].before.played_choices_len = 0)
             => /\ calls[k].tag = "Returned"
                /\ calls[k].after = calls[k].before

\* a lesson that changed the memory of an agent with a log, and a clearing
\* of a log that was not empty
C21_Witness ==
    /\ \E k \in 1..Len(calls) :
          /\ calls[k].op \in LearnOps
          /\ calls[k].before.played_choices_len > 0
          /\ calls[k].after.memory # calls[k].before.memory
    /\ \E k \in 1..Len(calls) :
          /\ calls[k].op = "clear_played_choices"
          /\ calls[k].before.played_choices_len > 0
          /\ calls[k].before.memory # <<>>

\* a lesson for an agent whose log is empty and whose memory is not
C21_WitnessEmptyLog ==
    \E k \in 1..Len(calls) :
        /\ calls[k].op \in LearnOps
        /\ calls[k].before.played_choices_len = 0
        /\ calls[k].before.memory # <<>>


(* ------------------------------------------------------------------ *)
(* The length of the logs over the games of the trainers.             *)
(* ------------------------------------------------------------------ *)

\* C22: in every game a trainer drives, over consecutive games, the log of
\* each agent holds at most PLAYED_CHOICES_LEN choices at every point, and
\* remember_played_choice is never called on a full log, so it never
\* writes past the end.
C22_LogWithinCapacity ==
    /\ \A chip \in Chip : bots[chip].played_choices_len <= PLAYED_CHOICES_LEN
    /\ \A k \in 1..Len(calls) :
          /\ calls[k].before.played_choices_len <= PLAYED_CHOICES_LEN
          /\ calls[k].after.played_choices_len <= PLAYED_CHOICES_LEN
          /\ calls[k].op = "remember_played_choice"
               => /\ calls[k].before.played_choices_len < PLAYED_CHOICES_LEN
                  /\ calls[k].tag = "Returned"

\* a choice remembered in the last place of the log
C22_Witness ==
    \E k \in 1..Len(calls) :
        /\ calls[k].op = "remember_played_choice"
        /\ calls[k].after.played_choices_len = PLAYED_CHOICES_LEN

\* a choice remembered in a game that is not the first of the trainer, the
\* agent having remembered choices in the game before
C22_WitnessLaterGame ==
    /\ game.matches > 1
    /\ \E k \in 1..Len(calls) :
          /\ calls[k].op = "remember_played_choice"
          /\ calls[k].after.played_choices_len = 1
          /\ calls[k].before.played_choices[1] # Choice_blank


(* ------------------------------------------------------------------ *)
(* The plies of a game and the logs the lessons at its end are given. *)
(* ------------------------------------------------------------------ *)

\* the (board before the move, column) pairs of the plies a side made, in order
RECURSIVE PliesOf(_, _)
PliesOf(moves, chip) ==
    IF moves = <<>> THEN <<>>
    ELSE (IF Head(moves).chip = chip
          THEN <<[board |-> Head(moves).board, column |-> Head(moves).column]>>
          ELSE <<>>) \o PliesOf(Tail(moves), chip)

\* the (board, column) pairs of the log of an agent, in order
Logged(bot) ==
    [i \in 1..bot.played_choices_len |->
        [board |-> bot.played_choices[i - 1].board,
         column |-> bot.played_choices[i - 1].column]]

\* the log a lesson at the end of the game is given is the plies of its side
LessonsOnOwnPlies ==
    \A k \in 1..Len(calls) :
        calls[k].op = "learn_from_played_choices"
            => Logged(calls[k].before) = PliesOf(game.moves, calls[k].chip)

SelfPlay == PairTrainers \cup {"GladiatorBotTrainer"}

\* C23: in every self-play game, of a pairwise trainer or of the evaluation
\* of a gladiator pair, the log of each agent at the end of the game holds
\* the (board before the move, column) pairs of the plies it made, in
\* order, and the lesson that follows is given that log.
C23_EveryPlyRemembered ==
    game.trainer \in SelfPlay => LessonsOnOwnPlies

\* the same for the pairwise trainers alone
C23_RememberedInPairTrainers ==
    game.trainer \in PairTrainers => LessonsOnOwnPlies

\* in the evaluation of a gladiator pair no ply is remembered: the lessons
\* are given empty logs
C23_NothingRememberedInEvaluate ==
    game.trainer = "GladiatorBotTrainer"
        => \A k \in 1..Len(calls) :
              /\ calls[k].op # "remember_played_choice"
              /\ calls[k].before.played_choices_len = 0
              /\ calls[k].after.played_choices_len = 0

\* the end of a game of a pairwise trainer, both agents being taught
C23_Witness ==
    /\ game.trainer \in PairTrainers
    /\ Len(game.moves) > 7
    /\ \E k \in 1..Len(calls) :
          /\ calls[k].op = "learn_from_played_choices"
          /\ calls[k].chip = Red
          /\ calls[k].before.played_choices_len > 3
    /\ \E k \in 1..Len(calls) :
          /\ calls[k].op = "learn_from_played_choices"
          /\ calls[k].chip = Yellow
          /\ calls[k].before.played_choices_len > 3

\* the end of a game of an evaluation: plies made, lessons on empty logs
C23_WitnessEvaluate ==
    /\ game.trainer = "GladiatorBotTrainer"
    /\ PliesOf(game.moves, Red) # <<>>
    /\ \E k \in 1..Len(calls) :
          /\ calls[k].op = "learn_from_played_choices"
          /\ calls[k].chip = Red
          /\ calls[k].before.played_choices_len = 0


(* ------------------------------------------------------------------ *)
(* The lessons of a game of BotTrainerGameResult.                     *)
(* ------------------------------------------------------------------ *)

\* the places in calls of the calls of an operation on the agent of a side
CallsOf(op, chip) == {k \in 1..Len(calls) : calls[k].op = op /\ calls[k].chip = chip}

\* the one lesson the agent of a side is given is the action, and its log is
\* cleared after the lessons of both agents
TaughtOnce(chip, action) ==
    /\ Cardinality(CallsOf("learn_from_played_choices", chip)) = 1
    /\ \A k \in CallsOf("learn_from_played_choices", chip) :
          /\ calls[k].action = action
          /\ calls[k].tag = "Returned"
    /\ Cardinality(CallsOf("clear_played_choices", chip)) = 1
    /\ \A j \in CallsOf("clear_played_choices", chip) :
          \A k \in 1..Len(calls) :
              calls[k].op = "learn_from_played_choices" => k < j
    /\ bots[chip].played_choices_len = 0

Won == {RedWon, YellowWon}

\* C24: in BotTrainerGameResult, when a game ends in a win, the agent that
\* made the winning move is given Reward(10) and the other agent
\* Punish(10), each in the one lesson it is given in the game, both logs
\* are cleared after the lessons, and both logs are empty when the next
\* game starts.
C24_WinLessons ==
    game.trainer = "BotTrainerGameResult" =>
        /\ (game.result \in Won /\ game.phase = "trained")
             => /\ game.result = (IF game.turn = Red THEN RedWon ELSE YellowWon)
                /\ game.moves[Len(game.moves)].chip = game.turn
                /\ TaughtOnce(game.turn, Reward(10))
                /\ TaughtOnce(opposite(game.turn), Punish(10))
        /\ game.result = None
             => \A k \in 1..Len(calls) :
                   calls[k].op \notin {"learn_from_played_choices", "clear_played_choices"}
        /\ game.moves = <<>>
             => \A chip \in Chip : bots[chip].played_choices_len = 0

\* a game Yellow won: both agents had logs, both are taught and cleared
C24_Witness ==
    /\ game.trainer = "BotTrainerGameResult"
    /\ game.result = YellowWon
    /\ game.phase = "trained"
    /\ \A k \in CallsOf("learn_from_played_choices", Yellow) :
          /\ calls[k].before.played_choices_len > 3
          /\ calls[k].after.memory # calls[k].before.memory
    /\ \A k \in CallsOf("learn_from_played_choices", Red) :
          /\ calls[k].before.played_choices_len > 3
          /\ calls[k].after.memory # calls[k].before.memory

\* the start of the game after a game that was won: a log was written, and
\* a log was not written to its end as a game that fills the board does
C24_WitnessNextGame ==
    /\ game.trainer = "BotTrainerGameResult"
    /\ game.matches > 1
    /\ game.moves = <<>>
    /\ \E chip \in Chip : bots[chip].played_choices[3] # Choice_blank
    /\ \E chip \in Chip : bots[chip].played_choices[PLAYED_CHOICES_LEN - 1] = Choice_blank


(* ------------------------------------------------------------------ *)
(* The lessons of a game of BotTrainerGameResult that fills the board. *)
(* ------------------------------------------------------------------ *)

\* the greatest lesson of a tie: base 1 and the greatest severity of a log
TieNudge == 1 + MaxSeverity

TiedGame == game.trainer = "BotTrainerGameResult" /\ game.result = Tie

\* the lesson of a tie for a side
TieAction(chip) == IF chip = Red THEN Punish(1) ELSE Reward(1)

\* the weight after is the weight before moved the way of the side, and is
\* an extreme only if the weight before was within the nudge of it
Nudged(chip, before_weight, after_weight) ==
    /\ chip = Red => after_weight <= before_weight
    /\ chip = Yellow => after_weight >= before_weight
    /\ (after_weight \in {I16_MIN, I16_MAX} /\ after_weight # before_weight)
         => /\ after_weight - before_weight <= TieNudge
            /\ before_weight - after_weight <= TieNudge

\* C25: when a game of the pairwise self-play trainer ends in a tie, the
\* agent of Red is given Punish(1) and the agent of Yellow Reward(1), the
\* weights of the two change in opposite directions, and no weight becomes
\* i16::MIN or i16::MAX unless it was within the nudge of that bound.
C25_TieNudgesOnly ==
    TiedGame =>
        \A k \in Taught :
            /\ calls[k].action = TieAction(calls[k].chip)
            /\ \A cells \in {LogCells(calls[k])} :
                  \A i \in 1..LogLen(calls[k]) :
                      Nudged(calls[k].chip, WeightIn(calls[k].before, cells[i]),
                             WeightIn(calls[k].after, cells[i]))

\* as coded: the actions and the directions are those, and the weight of the
\* last ply of each agent is set to the extreme of its action
C25_TieSetsExtremes ==
    TiedGame =>
        \A k \in Taught :
            /\ calls[k].action = TieAction(calls[k].chip)
            /\ calls[k].tag = "Returned"
            /\ \A cells \in {LogCells(calls[k])} :
                  /\ \A i \in 1..LogLen(calls[k]) :
                        IF calls[k].chip = Red
                        THEN WeightIn(calls[k].after, cells[i])
                                <= WeightIn(calls[k].before, cells[i])
                        ELSE WeightIn(calls[k].after, cells[i])
                                >= WeightIn(calls[k].before, cells[i])
                  /\ WeightIn(calls[k].after, cells[LogLen(calls[k])])
                        = IF calls[k].chip = Red THEN I16_MIN ELSE I16_MAX

\* a tie after which the weight of the last ply of Red, 0 before the lesson,
\* is i16::MIN, and that of the last ply of Yellow, 0 before, is i16::MAX
C25_Witness ==
    /\ TiedGame
    /\ \A chip \in Chip :
          \E k \in Taught :
              /\ calls[k].chip = chip
              /\ LogLen(calls[k]) = PLAYED_CHOICES_LEN
              /\ \E cells \in {LogCells(calls[k])} :
                    /\ WeightIn(calls[k].before, cells[PLAYED_CHOICES_LEN]) = 0
                    /\ WeightIn(calls[k].after, cells[PLAYED_CHOICES_LEN])
                          = IF chip = Red THEN I16_MIN ELSE I16_MAX


(* ------------------------------------------------------------------ *)
(* The sides of the agents from one game of a trainer to the next.    *)
(* ------------------------------------------------------------------ *)

\* a step from the end of a game to what follows it in the trainer
AfterGame == game.phase = "trained" /\ game'.phase # "trained"

\* the agents change sides
SidesSwapped == bots'[Red] = bots[Yellow] /\ bots'[Yellow] = bots[Red]

\* a game that starts is on the empty board with Red to move
StartsEmpty ==
    (game.moves = <<>> /\ game.phase = "training") => (column_pair = new /\ game.turn = Red)

\* the chip of the agent that learns is Red in the first iteration, Yellow in
\* the second, and so on
LearnerAlternates ==
    game.trainer = "MinMaxBotTrainer"
        => game.bot_turn = (IF game.matches % 2 = 1 THEN Red ELSE Yellow)

RolesSwapped ==
    AfterGame =>
        /\ game.trainer \in PairTrainers => SidesSwapped
        /\ game.trainer = "GladiatorBotTrainer"
             => /\ SidesSwapped
                /\ arena'.ids[Red] = arena.ids[Yellow]
                /\ arena'.ids[Yellow] = arena.ids[Red]
        /\ game.trainer = "MinMaxBotTrainer"
             => /\ game'.bot_turn = opposite(game.bot_turn)
                /\ bots'[game'.bot_turn] = bots[game.bot_turn]
        /\ game'.moves = <<>>

\* C26: after every game the roles are swapped: in the pairwise trainers and
\* in a gladiator pair the agent of Red plays Yellow in the next game and
\* the agent of Yellow plays Red, and in the minmax trainer the chip of the
\* agent that learns alternates Red, Yellow, Red, ...; every game starts
\* from the empty board with Red to move.
C26_RolesSwapped == [](StartsEmpty /\ LearnerAlternates) /\ [][RolesSwapped]_vars

\* the second game of a pairwise trainer under way, the two agents differing
C26_Witness ==
    /\ game.trainer \in PairTrainers
    /\ game.matches = 2
    /\ game.moves # <<>>
    /\ bots[Red] # bots[Yellow]

\* the second game of the minmax trainer: the agent that learns has moved
\* as Yellow
C26_WitnessMinmax ==
    /\ game.trainer = "MinMaxBotTrainer"
    /\ game.matches = 2
    /\ \E i \in 1..Len(game.moves) :
          game.moves[i].chip = Yellow /\ game.moves[i].by = ByChoose

\* the second game of a gladiator pair: the agent built first plays Yellow
C26_WitnessGladiator ==
    /\ game.trainer = "GladiatorBotTrainer"
    /\ game.matches = 1
    /\ game.moves # <<>>
    /\ arena.ids[Red] > arena.ids[Yellow]
    /\ bots[Red] # bots[Yellow]


(* ------------------------------------------------------------------ *)
(* The agent GladiatorGame::evaluate returns.                         *)
(* ------------------------------------------------------------------ *)

\* the number of games of the evaluation the agent has won
RECURSIVE WinsOf(_, _)
WinsOf(winners, id) ==
    IF winners = <<>> THEN 0
    ELSE (IF Head(winners) = id THEN 1 ELSE 0) + WinsOf(Tail(winners), id)

\* evaluate has returned the agent of a pair
Evaluated == game.trainer = "GladiatorBotTrainer" /\ arena.returned # 0

\* the tallies of the two sides are the wins of the agents on them
TalliesAttached ==
    (game.trainer = "GladiatorBotTrainer" /\ arena.listed # <<>>)
        => /\ arena.statistics.red_wins = WinsOf(arena.winners, arena.ids[Red])
           /\ arena.statistics.yellow_wins = WinsOf(arena.winners, arena.ids[Yellow])
           /\ {arena.ids[Red], arena.ids[Yellow]} = {arena.listed[1], arena.listed[2]}

\* the agent with more wins is returned
MoreWinsReturned ==
    Evaluated =>
        /\ WinsOf(arena.winners, arena.listed[1]) > WinsOf(arena.winners, arena.listed[2])
             => arena.returned = arena.listed[1]
        /\ WinsOf(arena.winners, arena.listed[2]) > WinsOf(arena.winners, arena.listed[1])
             => arena.returned = arena.listed[2]

EqualWins == WinsOf(arena.winners, arena.listed[1]) = WinsOf(arena.winners, arena.listed[2])

\* C27: evaluate(iterations) returns the agent of the pair that won strictly
\* more games, the tallies staying with their agents when the sides are
\* swapped; when both won as many games it returns the agent the pair was
\* built with as red_bot, for every number of iterations.
C27_EvaluateReturns ==
    /\ TalliesAttached
    /\ MoreWinsReturned
    /\ (Evaluated /\ EqualWins) => arena.returned = arena.listed[1]

\* as coded: with equal wins the agent on Yellow after the last swap is
\* returned, the agent built as red_bot after an odd number of iterations
\* and the agent built as yellow_bot after an even number
C27_EqualWinsBySwaps ==
    /\ TalliesAttached
    /\ MoreWinsReturned
    /\ (Evaluated /\ EqualWins)
         => arena.returned = (IF Len(arena.winners) % 2 = 1 THEN arena.listed[1]
                              ELSE arena.listed[2])

\* evaluate(0) has returned the agent built as yellow_bot
C27_Witness ==
    /\ Evaluated
    /\ arena.winners = <<>>
    /\ arena.returned = arena.listed[2]

\* two games, one won by each agent: the agent built as yellow_bot is returned
C27_WitnessOneEach ==
    /\ Evaluated
    /\ Len(arena.winners) = 2
    /\ WinsOf(arena.winners, arena.listed[1]) = 1
    /\ WinsOf(arena.winners, arena.listed[2]) = 1
    /\ arena.returned = arena.listed[2]

\* the agent with more wins is returned from the side it was not built on
C27_WitnessMoreWins ==
    /\ Evaluated
    /\ ~EqualWins
    /\ \/ /\ arena.returned = arena.listed[1]
          /\ Len(arena.winners) % 2 = 1
       \/ /\ arena.returned = arena.listed[2]
          /\ Len(arena.winners) % 2 = 0


(* ------------------------------------------------------------------ *)
(* The tournament of GladiatorBotTrainer run to its end.              *)
(* ------------------------------------------------------------------ *)

Tournament == game.trainer = "GladiatorBotTrainer"

\* the_one_bot_to_rule_them_all has returned
TournamentDone == Tournament /\ game.phase = "done"

\* the numbers of the agents GladiatorBotTrainer::new built
Built == 1..(2 * arena.arena_size)

\* the fights of a round are fewer than those of the round before
FightsDecrease ==
    Tournament =>
        /\ \A i \in 1..Len(arena.rounds) : arena.rounds[i] >= 1
        /\ Len(arena.rounds) >= 1 => arena.rounds[1] = arena.arena_size
        /\ \A i \in 1..(Len(arena.rounds) - 1) : arena.rounds[i + 1] < arena.rounds[i]

\* the agent returned is one agent, the winner of the last evaluation and one
\* of those built; nothing is left to evaluate
OneReturned ==
    TournamentDone =>
        /\ Len(arena.remainder) = 1
        /\ arena.remainder[1].id = arena.returned
        /\ arena.returned \in Built
        /\ arena.fights = <<>>
        /\ arena.games = <<>>
        /\ arena.current = <<>>

\* with one pair its winner is returned and the other agent of the pair
\* lost to it
OnePair ==
    (TournamentDone /\ arena.arena_size = 1)
        => /\ arena.rounds = <<1>>
           /\ arena.listed = <<1, 2>>
           /\ arena.lost = {1, 2} \ {arena.returned}

\* C28: for every arena size >= 1 the tournament terminates and returns one
\* agent, one of the 2 * arena_size agents built at the start; the number
\* of pending fights is smaller in every round than in the round before;
\* with arena size 1 the winner of the one pair is returned and no agent is
\* left unpaired.
C28_TournamentTerminates ==
    /\ [](FightsDecrease /\ OneReturned /\ OnePair /\ (Tournament => game.phase # "crashed"))
    /\ Tournament ~> TournamentDone

\* a tournament of three pairs, done after two rounds
C28_Witness ==
    /\ TournamentDone
    /\ arena.arena_size = 3
    /\ arena.rounds = <<3, 1>>
    /\ arena.iterations > 0

\* a tournament of one pair, done
C28_WitnessOnePair ==
    /\ TournamentDone
    /\ arena.arena_size = 1
    /\ arena.iterations > 0


(* ------------------------------------------------------------------ *)
(* The survivor of a round that has no partner.                       *)
(* ------------------------------------------------------------------ *)

\* the agents that are not the one returned
Others == Built \ {arena.returned}

\* C29: the survivor of a round left without a partner is paired in a
\* following round, and no agent leaves the tournament without having lost
\* an evaluation: when the tournament returns, every agent but the one
\* returned has lost an evaluation.
C29_NoneDiscardedUnbeaten ==
    TournamentDone => Others \subseteq arena.lost

\* as coded: so it is when no round has an odd number of survivors above one,
\* which is when the arena size is a power of two
C29_NoneDiscardedIfAlwaysPaired ==
    (TournamentDone /\ \A i \in 1..Len(arena.rounds) :
                          arena.rounds[i] = 1 \/ arena.rounds[i] % 2 = 0)
        => Others \subseteq arena.lost

\* as coded: a remainder is never taken back into a fight; the agents of the
\* fights of a round are winners of the round before
C29_RemainderNeverPaired ==
    (Tournament /\ arena.remainder # <<>>)
        => \A i \in 1..Len(arena.fights) :
              /\ arena.fights[i].red_bot.id # arena.remainder[1].id
              /\ arena.fights[i].yellow_bot.id # arena.remainder[1].id

\* a tournament of three pairs has returned: the winner of the third pair,
\* left without a partner in the first round, never lost and is not returned
C29_Witness ==
    /\ TournamentDone
    /\ arena.arena_size = 3
    /\ arena.iterations > 0
    /\ \E id \in {5, 6} : id \notin arena.lost /\ id # arena.returned

\* a tournament of two pairs has returned and every other agent has lost
C29_WitnessPaired ==
    /\ TournamentDone
    /\ arena.arena_size = 2
    /\ arena.iterations > 0
    /\ Others \subseteq arena.lost


(* ------------------------------------------------------------------ *)
(* The log and the lesson of the agent MinMaxBotTrainer trains.       *)
(* ------------------------------------------------------------------ *)

MinmaxTrained == game.trainer = "MinMaxBotTrainer"

\* the plies of the chip of the agent are its choices, those of the other
\* chip are positions of minmax called with that chip as maximizer and the
\* turn of the ply
MovesByTurn ==
    \A i \in 1..Len(game.moves) :
        /\ game.moves[i].chip = (IF i % 2 = 1 THEN Red ELSE Yellow)
        /\ game.moves[i].by = (IF game.moves[i].chip = game.bot_turn THEN ByChoose
                               ELSE By("minmax", opposite(game.bot_turn),
                                       game.moves[i].chip))

\* the log of the agent is its own plies, while the game is under way and
\* when the lesson is given
OwnPliesLogged ==
    /\ game.phase = "training"
         => Logged(bots[game.bot_turn]) = PliesOf(game.moves, game.bot_turn)
    /\ LessonsOnOwnPlies
    /\ \A k \in 1..Len(calls) :
          /\ calls[k].chip = game.bot_turn
          /\ calls[k].op = "remember_played_choice"
               => game.moves[Len(game.moves)].chip = game.bot_turn

\* the one lesson of a won game is Reward(10) for a win of the chip of the
\* agent and Punish(10) for a win of the other chip
LessonOfWinner ==
    /\ (game.result \in Won /\ game.phase = "trained")
         => TaughtOnce(game.bot_turn,
                       IF game.result = (IF game.bot_turn = Red THEN RedWon ELSE YellowWon)
                       THEN Reward(10) ELSE Punish(10))
    /\ game.result = None
         => \A k \in 1..Len(calls) : calls[k].op # "learn_from_played_choices"

\* C30: in the minmax trainer only the choices of the agent that learns are
\* appended to its log; the moves of the other side come from minmax called
\* with the chip of the opponent of the agent as maximizer and the current
\* turn and are never logged; at the end of a game only the agent that
\* learns is taught, Reward(10) if its chip won and Punish(10) if the
\* minmax side won.
C30_OnlyLearnerLogsAndLearns ==
    MinmaxTrained =>
        /\ MovesByTurn
        /\ OwnPliesLogged
        /\ LessonOfWinner
        /\ bots[opposite(game.bot_turn)] = NoBots[opposite(game.bot_turn)]

\* a game the agent won: it is rewarded on its own plies, the other side
\* having moved in between
C30_Witness ==
    /\ MinmaxTrained
    /\ game.phase = "trained"
    /\ game.result = (IF game.bot_turn = Red THEN RedWon ELSE YellowWon)
    /\ PliesOf(game.moves, opposite(game.bot_turn)) # <<>>
    /\ \E k \in 1..Len(calls) :
          /\ calls[k].action = Reward(10)
          /\ calls[k].after.memory # calls[k].before.memory

\* a game the minmax side won, the agent playing Yellow: it is punished
C30_WitnessMinmaxWon ==
    /\ MinmaxTrained
    /\ game.phase = "trained"
    /\ game.bot_turn = Yellow
    /\ game.result = RedWon
    /\ \E k \in 1..Len(calls) :
          /\ calls[k].action = Punish(10)
          /\ calls[k].before.played_choices_len > 0
          /\ calls[k].after.memory # calls[k].before.memory


(* ------------------------------------------------------------------ *)
(* The end of a game of a trainer.                                    *)
(* ------------------------------------------------------------------ *)

\* the most plies a game can have: one for every cell
MaxPlies == COLUMN_LEN * ROW_LEN

LastMove == game.moves[Len(game.moves)]

\* the chip that has four in a row through the cell placed last, or None
WonAtLastCell(g) ==
    WinnerOnGrid(g, LastMove.column, Height(g, LastMove.column) - 1)

\* the result of the game is the one the board and the last ply give
ResultOfBoard(g) ==
    /\ Cardinality(Occupied(g)) = Len(game.moves)
    /\ g[<<LastMove.column, Height(g, LastMove.column) - 1>>] = LastMove.chip
    /\ game.result = RedWon => (LastMove.chip = Red /\ WonAtLastCell(g) = Red)
    /\ game.result = YellowWon => (LastMove.chip = Yellow /\ WonAtLastCell(g) = Yellow)
    /\ game.result = Tie => (GridFilled(g) /\ WonAtLastCell(g) = None)
    /\ game.result = None => (~GridFilled(g) /\ WonAtLastCell(g) = None)

\* C31: every game a trainer drives ends after at most 42 plies with exactly
\* one of RedWon, YellowWon and Tie: a win is reported for the chip that
\* just moved, which has four in a row through the placed cell, and Tie is
\* reported only on a filled board whose last placed cell is in no four
\* in a row; while neither is so the game goes on.
C31_GameEnds ==
    /\ Len(game.moves) <= MaxPlies
    /\ game.result \in {None, RedWon, YellowWon, Tie}
    /\ game.phase = "trained" => game.result # None
    /\ game.phase = "training" => game.result = None
    /\ game.moves # <<>> => \A g \in {Grid(column_pair)} : ResultOfBoard(g)

\* a game of an evaluation won by a ply that is not the last possible one
C31_Witness ==
    /\ game.result \in Won
    /\ game.phase = "trained"
    /\ Len(game.moves) < MaxPlies
    /\ game.trainer = "GladiatorBotTrainer"

\* a game that ends in a tie with the 42nd ply
C31_WitnessTie ==
    /\ game.result = Tie
    /\ Len(game.moves) = MaxPlies


(* ------------------------------------------------------------------ *)
(* The shape of the boards place_chip makes.                          *)
(* ------------------------------------------------------------------ *)

\* the bits set in the pair
SetBits(b) == count_ones(b[1], 0..63) + count_ones(b[2], 0..31)

\* the number of place_chip calls that returned Ok
RECURSIVE PlacedUpTo(_)
PlacedUpTo(column) ==
    IF column < 0 THEN 0 ELSE placed[column] + PlacedUpTo(column - 1)

\* the occupied cells of every column are the rows below its height
NoGaps(g) ==
    \A column \in Columns :
        \A k \in {Height(g, column)} :
            /\ k <= ROW_LEN
            /\ \A row \in 0..(ROW_LEN - 1) : (g[<<column, row>>] # None) <=> (row < k)

\* C32: on every board reached from Board::new() by place_chip calls no cell
\* holds the bit pattern 0b11, the occupied cells of each column are the
\* rows 0..k-1 for some k <= 6, and the number of set bits is the number of
\* chips placed, at most 42.
C32_BoardShape ==
    \A g \in {Grid(column_pair)} :
        /\ \A cell \in Cells : g[cell] \in {None, Red, Yellow}
        /\ NoGaps(g)
        /\ SetBits(column_pair) = PlacedUpTo(COLUMN_LEN - 1)
        /\ SetBits(column_pair) = Cardinality(Occupied(g))
        /\ SetBits(column_pair) <= COLUMN_LEN * ROW_LEN

\* a board with a full column beside a column that is neither full nor
\* empty, chips of both colours on it, after a call that was refused
C32_Witness ==
    /\ LastErr
    /\ \A g \in {Grid(column_pair)} :
          /\ \E column \in Columns : Height(g, column) = ROW_LEN
          /\ \E column \in Columns : Height(g, column) \in 1..(ROW_LEN - 1)
          /\ \E cell \in Cells : g[cell] = Red
          /\ \E cell \in Cells : g[cell] = Yellow

\* the board with all 42 cells taken
C32_WitnessFull == SetBits(column_pair) = COLUMN_LEN * ROW_LEN


(* ------------------------------------------------------------------ *)
(* The boards choose and minmax are given by the trainers.            *)
(* ------------------------------------------------------------------ *)

\* a board of a game under way: not filled and without four in a row
Playable(g) == ~GridFilled(g) /\ ~HasFour(g)

\* the pass made last was made on a playable board, with a column that had
\* room, by choose or by minmax
LastPassSound ==
    game.moves # <<>> =>
        /\ \A g \in {Grid(LastMove.board)} :
              /\ Playable(g)
              /\ LastMove.column \in OpenOn(g)
        /\ LastMove.by.op \in {"choose", "minmax"}

\* every choose of the step returned, on a playable board
ChooseSound ==
    \A k \in Chosen :
        /\ calls[k].tag = "Returned"
        /\ Playable(Grid(calls[k].board))

C33_WitnessLastCell ==
    \E k \in Chosen :
        Cardinality(Occupied(Grid(calls[k].board))) = COLUMN_LEN * ROW_LEN - 1


\* ---------------------------------------------------------------------------
\* C34: the weights a bot reads for a board and for its mirror
\* ---------------------------------------------------------------------------

\* board_weights[column] as choose reads it on the board
ReadWeight(bot, board, column) ==
    board_weights(get_or_insert_memory_weights(bot, board))[column]

\* the mirror passed as a parameter so that it is computed once
ReadsMirrored(bot, board, mirror) ==
    \A column \in Columns :
        ReadWeight(bot, board, column) = ReadWeight(bot, mirror, COLUMN_LEN - 1 - column)

\* C34: after any sequence of choose and learning calls the weight a bot reads
\* for column c on a board equals the weight it reads for column 6 - c on the
\* mirror of the board, for every board its memory knows in one orientation
C34_MirrorConsistent ==
    \A chip \in Chip : \A key \in Keys(bots[chip]) :
        ReadsMirrored(bots[chip], key, Mirror(key))

\* as coded: the two readings agree for every board that differs from its
\* mirror
C34_MirrorConsistentOffAxis ==
    \A chip \in Chip : \A key \in Keys(bots[chip]) : \A mirror \in {Mirror(key)} :
        mirror # key => ReadsMirrored(bots[chip], key, mirror)

\* a lesson has changed the weight of one column of the empty board, which is
\* its own mirror, and left the weight of the opposite column as it was
C34_Witness ==
    \E chip \in Chip : \E key \in Keys(bots[chip]) : \E column \in Columns :
        /\ key = Settled(new)
        /\ ReadWeight(bots[chip], key, column) # 0
        /\ ReadWeight(bots[chip], key, COLUMN_LEN - 1 - column) = 0

\* a board stored in one orientation only has been taught and reads the
\* same from both sides
C34_WitnessOffAxis ==
    \E chip \in Chip : \E key \in Keys(bots[chip]) : \E column \in Columns :
        /\ Mirror(key) # key
        /\ ReadWeight(bots[chip], key, column) # 0
        /\ ReadWeight(bots[chip], Mirror(key), COLUMN_LEN - 1 - column)
              = ReadWeight(bots[chip], key, column)


(* ------------------------------------------------------------------ *)
(* The chips BotTrainerBoardPosition gives to learn_from_board.        *)
(* ------------------------------------------------------------------ *)

BoardTaught == {k \in 1..Len(calls) : calls[k].op = "learn_from_board"}

\* the calls of learn_from_board on the agent that was given the action by
\* learn_from_played_choices just before
LessonOn(action) ==
    {k \in BoardTaught :
        \E j \in Taught : calls[j].action = action /\ calls[j].after = calls[k].before}

\* the weight of the last logged move of the agent when the call returns
LastLoggedWeight(call) == WeightIn(call.after, LogCells(call)[LogLen(call)])

DecisiveBoardPosition ==
    /\ game.trainer = "BotTrainerBoardPosition"
    /\ game.phase = "trained"
    /\ game.result \in Won

\* C35: in BotTrainerBoardPosition, after every game that has a winner, the
\* call of learn_from_board on each agent is given the chip that agent played
\* in the game, and it leaves the last logged move of the winner with weight
\* i16::MAX and the last logged move of the loser with weight i16::MIN,
\* whichever colour won.
C35_OwnChipGiven ==
    DecisiveBoardPosition =>
        /\ \A k \in LessonOn(Reward(10)) :
              /\ calls[k].chip = game.turn
              /\ LastLoggedWeight(calls[k]) = I16_MAX
        /\ \A k \in LessonOn(Punish(10)) :
              /\ calls[k].chip = opposite(game.turn)
              /\ LastLoggedWeight(calls[k]) = I16_MIN

\* as coded: the winner is taught as Red and the loser as Yellow, so the
\* extremes are those of the claim when Red won and the other way round when
\* Yellow won
C35_WinnerTaughtAsRed ==
    DecisiveBoardPosition =>
        /\ Cardinality(LessonOn(Reward(10))) = 1
        /\ Cardinality(LessonOn(Punish(10))) = 1
        /\ \A k \in LessonOn(Reward(10)) :
              /\ calls[k].chip = Red
              /\ calls[k].result = game.result
              /\ LastLoggedWeight(calls[k])
                    = IF game.result = RedWon THEN I16_MAX ELSE I16_MIN
        /\ \A k \in LessonOn(Punish(10)) :
              /\ calls[k].chip = Yellow
              /\ calls[k].result = game.result
              /\ LastLoggedWeight(calls[k])
                    = IF game.result = RedWon THEN I16_MIN ELSE I16_MAX

\* a game Yellow won: its agent is taught as Red and its winning move is left
\* with i16::MIN
C35_Witness ==
    /\ DecisiveBoardPosition
    /\ game.result = YellowWon
    /\ game.turn = Yellow
    /\ \E k \in LessonOn(Reward(10)) :
          /\ calls[k].chip = Red
          /\ LastLoggedWeight(calls[k]) = I16_MIN
          /\ WeightIn(calls[k].before, LogCells(calls[k])[LogLen(calls[k])]) = I16_MAX

\* a game Red won: the chips are those the agents played
C35_WitnessRedWon ==
    /\ DecisiveBoardPosition
    /\ game.result = RedWon
    /\ \E k \in LessonOn(Reward(10)) :
          calls[k].chip = game.turn /\ LastLoggedWeight(calls[k]) = I16_MAX
    /\ \E k \in LessonOn(Punish(10)) :
          calls[k].chip = opposite(game.turn) /\ LastLoggedWeight(calls[k]) = I16_MIN


(* ------------------------------------------------------------------ *)
(* The search and the game loops on the move that ends a game.         *)
(* ------------------------------------------------------------------ *)

\* the GameResult a pass of start_match breaks with after the mover's chip is
\* placed in the column of the searched board, None if the game goes on
LoopResult(column, placed_chip) ==
    game_result_ended([board |-> Settled(placed_chip.board), column |-> column,
                       row |-> placed_chip.result.row],
                      NoBots, found.turn, FALSE).result

MoverWon == IF found.turn = Red THEN RedWon ELSE YellowWon

\* Result(1000) for the maximizer's win, Result(-1000) for the other's
MoverWins == Result(IF found.turn = found.maximizer THEN 1000 ELSE -1000)

\* the child is scored as the loop result says
ScoredAs(child, result) ==
    /\ child = MoverWins <=> result = MoverWon
    /\ child = Result(0) <=> result = Tie

\* C36: for every board and every legal move minmax_after_move scores the
\* move as a win of the mover (+/-1000) exactly when the game loop of the
\* trainers would end the game with the mover winning, and as a tie (0)
\* exactly when the loop would report Tie, also for a move into the last
\* empty cell that completes four in a row.  Stated of the children of the
\* search nodes of depth 1 and more, whose Result values are those of the
\* tests of the end of the game.
C36_ClassifiedAsGameLoop ==
    (Searched /\ found.depth >= 1) =>
        \A k \in 1..Len(found.results) :
            ScoredAs(found.results[k][2],
                     LoopResult(found.results[k][1],
                                place_chip(found.board, found.results[k][1], found.turn)))

\* as coded: the two agree on every move that leaves a cell empty, and the
\* search scores every move into the last empty cell as a tie
C36_ClassifiedUnlessLastCell ==
    (Searched /\ found.depth >= 1) =>
        \A k \in 1..Len(found.results) :
            IF FillsBy(Grid(found.board), found.results[k][1])
            THEN found.results[k][2] = Result(0)
            ELSE ScoredAs(found.results[k][2],
                          LoopResult(found.results[k][1],
                                     place_chip(found.board, found.results[k][1], found.turn)))

\* the move into the last empty cell completes four in a row: the loop ends
\* the game with the mover winning and the search scores it 0
C36_Witness ==
    /\ Searched /\ found.depth >= 1
    /\ \E k \in 1..Len(found.results) :
          /\ FillsBy(Grid(found.board), found.results[k][1])
          /\ LoopResult(found.results[k][1],
                        place_chip(found.board, found.results[k][1], found.turn)) = MoverWon
          /\ found.results[k][2] = Result(0)

\* a node with a winning move, a move into the last cell that ties and a
\* move after which the game goes on, scored as the loop ends them
C36_WitnessAgree ==
    /\ Searched /\ found.depth >= 1
    /\ \E k \in 1..Len(found.results) :
          /\ ~FillsBy(Grid(found.board), found.results[k][1])
          /\ found.results[k][2] = MoverWins
          /\ LoopResult(found.results[k][1],
                        place_chip(found.board, found.results[k][1], found.turn)) = MoverWon

\* the move into the last empty cell completes nothing: a tie for both
C36_WitnessTie ==
    /\ Searched /\ found.depth >= 1
    /\ \E k \in 1..Len(found.results) :
          /\ found.results[k][2] = Result(0)
          /\ LoopResult(found.results[k][1],
                        place_chip(found.board, found.results[k][1], found.turn)) = Tie


(* ------------------------------------------------------------------ *)
(* What choose changes in the agent.                                   *)
(* ------------------------------------------------------------------ *)

\* every entry the memory had is in its place with its weights
EntriesKept(call) ==
    /\ Len(call.before.memory) <= Len(call.after.memory)
    /\ \A k \in 1..Len(call.before.memory) : call.after.memory[k] = call.before.memory[k]

\* the board is known in neither orientation
Unknown(bot, board, mirror) == board \notin Keys(bot) /\ mirror \notin Keys(bot)

\* nothing is added for a known board, and for an unknown one the one entry
\* added is the board with blank weights
BlankForUnknown(call, mirror) ==
    IF Unknown(call.before, call.board, mirror)
    THEN /\ Len(call.after.memory) = Len(call.before.memory) + 1
         /\ call.after.memory[Len(call.after.memory)]
               = [key |-> call.board, weight |-> Weight_blank]
    ELSE Len(call.after.memory) = Len(call.before.memory)

\* a call that panics has drawn its number or panicked before the draw
ChooseFrame(call) ==
    /\ EntriesKept(call)
    /\ BlankForUnknown(call, Mirror(call.board))
    /\ Log(call.after) = Log(call.before)
    /\ call.after.exploration = call.before.exploration
    /\ IF call.tag = "Returned"
       THEN call.after.rand = next(call.before.rand)
       ELSE call.after.rand \in {call.before.rand, next(call.before.rand)}

\* C37: choose changes no weight that is in the memory and does not touch
\* the log: all it does to the agent is insert blank weights for a board
\* known in neither orientation and advance the random number generator by
\* one step; the weights of the memory change in the learning calls only.
C37_ChooseFrame ==
    \A k \in 1..Len(calls) :
        /\ calls[k].op = "choose" => ChooseFrame(calls[k])
        /\ calls[k].op \notin LearnOps => EntriesKept(calls[k])

\* choose on a board known in neither orientation by an agent that has been
\* taught: the blank entry is added behind weights that are not blank
C37_Witness ==
    \E k \in 1..Len(calls) :
        /\ calls[k].op = "choose"
        /\ calls[k].tag = "Returned"
        /\ Unknown(calls[k].before, calls[k].board, Mirror(calls[k].board))
        /\ Len(calls[k].after.memory) = Len(calls[k].before.memory) + 1
        /\ \E j \in 1..Len(calls[k].before.memory) :
              calls[k].before.memory[j].weight # Weight_blank

\* choose on a board the agent knows by its mirror only: nothing is added
C37_WitnessKnown ==
    \E k \in 1..Len(calls) :
        /\ calls[k].op = "choose"
        /\ calls[k].tag = "Returned"
        /\ calls[k].board \notin Keys(calls[k].before)
        /\ Mirror(calls[k].board) \in Keys(calls[k].before)
        /\ calls[k].after.memory = calls[k].before.memory
        /\ calls[k].after.rand # calls[k].before.rand


(* ------------------------------------------------------------------ *)
(* The games of start_with_iterations.                                 *)
(* ------------------------------------------------------------------ *)

Iterating == game.trainer \in IterationTrainers /\ "iterations" \in DOMAIN game

\* the for loop itself has panicked
LoopPanicked == Iterating /\ game.phase = "crashed" /\ game.why # ""

BelowParts == game.iterations > 0 /\ game.iterations < report_parts(game.trainer)

\* C38: start_with_iterations(n) of each trainer plays n complete games and
\* then returns, for every n >= 0, also for n less than 5 (the trainers of a
\* pair of agents) and less than 10 (MinMaxBotTrainer): it does not panic,
\* and when it returns it has played n games.
C38_PlaysAllGames ==
    Iterating =>
        /\ game.phase # "crashed"
        /\ game.matches <= game.iterations
        /\ game.phase = "returned" => game.matches = game.iterations

\* as coded: with 0 < n < 5, or 10, the first pass of the for loop panics
\* before a game is started; with any other n the loop does not panic and
\* the call returns after n games
C38_PanicsBelowParts ==
    Iterating =>
        /\ game.matches <= game.iterations
        /\ game.phase = "returned" => (game.matches = game.iterations /\ ~BelowParts)
        /\ LoopPanicked => (BelowParts /\ game.matches = 0)
        /\ BelowParts => (game.matches = 0 /\ game.phase \in {"called", "crashed"})

\* start_with_iterations(4) of a trainer of a pair, or (9) of
\* MinMaxBotTrainer, panicked with no game played
C38_Witness ==
    /\ LoopPanicked
    /\ game.iterations = report_parts(game.trainer) - 1
    /\ game.matches = 0
    /\ column_pair = new

\* the call returned after the games it was asked for
C38_WitnessReturned ==
    /\ Iterating
    /\ game.phase = "returned"
    /\ game.iterations >= report_parts(game.trainer)
    /\ game.matches = game.iterations

\* start_with_iterations(0) returned
C38_WitnessNoGame ==
    /\ Iterating
    /\ game.phase = "returned"
    /\ game.iterations = 0


(* ------------------------------------------------------------------ *)
(* The winner of main.rs and the winner of board.rs.                   *)
(* ------------------------------------------------------------------ *)

\* the array of main.rs that holds what the grid holds
MainColumns(g) ==
    [column \in 0..(COLUMN_LEN - 1) |-> [row \in 0..(ROW_LEN - 1) |-> g[<<column, row>>]]]

\* place_chip of main.rs, on the array of the board before the call, does
\* what place_chip of board.rs did: from equal boards both refuse, or both
\* place in the same row and leave equal boards
SamePlacement(main_placed) ==
    /\ main_placed.result.tag = last.result.tag
    /\ main_placed.result.row = last.result.row
    /\ main_placed.columns = MainColumns(Grid(column_pair))

\* the chips on the board
Moves == Cardinality(Occupied(Grid(column_pair)))

\* the two winners on the cell just placed, and the loop of Game::start on it
SameWinner(columns, won) ==
    /\ main_winner(columns, last.column, last.result.row) = won
    /\ (won # None /\ Moves > 6) =>
          main_start_pass(Moves, main_winner(columns, last.column, last.result.row)) = "won"

\* C39: on every board reached by placements and for the cell just placed,
\* winner of main.rs on its array gives what winner of board.rs gives on the
\* packed board: the chip whenever four in a row pass through the cell, also
\* when the cell is in the middle of the line, so that the loop of
\* Game::start ends on every winning move.
C39_MainWinnerAgrees ==
    /\ ~Called => MainColumns(Grid(column_pair)) = main_new
    /\ Called =>
          SamePlacement(main_place_chip(MainColumns(Grid(last.before)), last.column, last.chip))
    /\ LastOk =>
          SameWinner(MainColumns(Grid(column_pair)),
                     winner(column_pair, last.column, last.result.row))

\* the run of 4 cells holds one chip and has the cell at one of its ends
RunFrom(g, L, cell) ==
    /\ cell \in L
    /\ \A x \in L : g[x] = g[cell]
    /\ \E x \in L : x[1] - cell[1] \in {3, -3} \/ x[2] - cell[2] \in {3, -3}

\* as coded: the boards of the two programs stay equal, and winner of
\* main.rs gives the chip exactly when a run of four of it starts or ends at
\* the cell just placed; then winner of board.rs gives it too
C39_MainWinnerAtEndsOnly ==
    /\ ~Called => MainColumns(Grid(column_pair)) = main_new
    /\ Called =>
          SamePlacement(main_place_chip(MainColumns(Grid(last.before)), last.column, last.chip))
    /\ LastOk =>
          LET g == Grid(column_pair)
              cell == <<last.column, last.result.row>>
              main_won == main_winner(MainColumns(g), last.column, last.result.row)
          IN  /\ main_won = IF \E L \in Lines : RunFrom(g, L, cell) THEN last.chip ELSE None
              /\ main_won # None => winner(column_pair, last.column, last.result.row) = main_won

\* the chip placed is the third of four in a row: board.rs has a winner,
\* main.rs has none and the loop of Game::start goes on
C39_Witness ==
    /\ LastOk
    /\ Moves > 6
    /\ winner(column_pair, last.column, last.result.row) = last.chip
    /\ main_winner(MainColumns(Grid(column_pair)), last.column, last.result.row) = None
    /\ main_start_pass(Moves, None) = "next"

\* the chip placed is at the end of four in a row: both have the winner
C39_WitnessAtEnd ==
    /\ LastOk
    /\ Moves > 6
    /\ winner(column_pair, last.column, last.result.row) = last.chip
    /\ main_winner(MainColumns(Grid(column_pair)), last.column, last.result.row) = last.chip

=============================================================================
